---- MODULE Spec2Model ----
(***************************************************************************)
(* EchoGraph API server (api_server.py): the plugin channel, the session   *)
(* registry, the async initialisation task table and the coordinated       *)
(* re-initialisation protocol, as a state machine.                         *)
(*                                                                         *)
(* Scheduling.  Every endpoint is an `async def` served by one asyncio     *)
(* event loop: the code between two awaits of a handler runs without any   *)
(* other handler running.  `loop` names the coroutine that holds the event *)
(* loop (Idle between segments).  A segment is one action; where a claim   *)
(* speaks about the order of assignments inside one segment the segment is *)
(* cut into steps that keep `loop`.  Functions handed to run_in_threadpool *)
(* run on worker threads, which step whatever `loop` is.                   *)
(***************************************************************************)
EXTENDS Integers, Sequences, FiniteSets, TLC

\* ------------------------------------------------------------------ bounds
NumSockets == 3
NumCallers == 2
NumTasks == 1
NumConv == 4
NumResets == 1

Sockets == 1..NumSockets
SessionIds == {"s1", "s2"}
None == 0
Idle == <<"idle", 0>>

\* Close codes of the socket surface.
CODE_REPLACED == 1012
CODE_POLICY == 1008

VARIABLES
  loop,                 \* the coroutine holding the event loop, or Idle
  \* --- plugin channel
  TAVERN_MODE_ACTIVE,   \* the global gate
  active_connections,   \* ConnectionManager.active_connections: session id -> socket | None
  wsPc,                 \* position of websocket_endpoint(w)
  wsSid,                \* the session id of w's URL
  wsOld,                \* connect's local old_ws
  wsState,              \* "new" | "open" | "closed": the transport of w
  closeCalls,           \* the codes the server called w.close() with
  frames,               \* the frames handed to w.send_json, in order
  \* --- session registry
  sessions,             \* session id -> engine | None
  session_creation_locks, \* session id -> Lock | None
  lockHeld,             \* Lock -> the caller inside its `with`, or None
  constructed,          \* engine -> the session id it was constructed for ("" before)
  graph,                \* engine -> the knowledge graph of engine.memory
  disk,                 \* session id -> the graph file of the session
  registered,           \* session ids registered with the storage manager
  sliding_window_managers, \* session id -> the engine whose memory the manager updates, or None
  conflict_resolvers,   \* session ids with a conflict resolver
  \* --- callers: /initialize requests and async initialisation tasks
  cKind,                \* "none" | "init" | "async"
  cPc,                  \* position of the caller (handler or worker thread)
  cSid,                 \* the session id of the request
  cLock,                \* the Lock the worker evaluated for its `with`
  cEngine,              \* the engine get_or_create_session_engine returned
  cResp,                \* the response of /initialize
  initialization_tasks, \* task id -> task record | NoTask
  \* --- sliding window pipeline (process_conversation requests)
  sliding_window,       \* session id -> the turns of the manager's window, oldest first
  turn_sequence,        \* session id -> the sequence number of the last turn pushed
  inFlight,             \* session id -> the sequences of the turns under extraction
  kPc,                  \* position of process_conversation request k
  kSid,                 \* the session id of request k
  kTarget,              \* the sequence of the target turn of request k (0: none)
  kHow,                 \* "agent" | "local": what extracted the deltas of request k
  kResp,                \* the response to request k
  kHist,                \* sync request k: what its authoritative history says, <<op, turn>>
  \* --- plugin character data and coordinated re-initialisation
  pending_coordinated_reinits, \* session ids waiting for character data
  plugin_character_data,       \* character id -> the character name submitted ("" : no entry)
  cName,                \* req.character_name of a submit_character request
  jPc,                  \* position of the background job caller c started for a session
  jEngine,              \* the engine the job took from sessions
  \* --- /system/full_reset and /system/quick_reset requests
  rPc,                  \* position of reset request r
  rKind,                \* "full" | "quick"
  rKeys,                \* the keys of active_connections still to be closed
  rBound,               \* the sockets that were bound when the request arrived
  \* --- GameEngine._process_deletion_events on the memory of one engine
  kgNodes,              \* memory.knowledge_graph: node id -> "absent" | "live" | "deleted"
  kgEdges,              \* memory.knowledge_graph: the edges, <<source, target, relationship>>
  storeWildcards,       \* whether memory.delete_edge itself expands "*"
  dPc,                  \* "idle" | "nodes" | "edges" | "done": the loop the call is in
  dEntry,               \* the entry of the delta (or the bootstrap) that ran last
  dSteps,               \* how many entries of the delta were processed
  nodes_deleted,        \* the local counter of the call
  edges_deleted,        \* the local counter of the call
  dStats,               \* the statistics the call returned
  \* --- GameEngine.initialize_from_tavern_data and the entities of the graph
  kgEntities,           \* memory.knowledge_graph: the entities, [id, type, name]
  bCard,                \* character_card["name"] of the last bootstrap
  bReply,               \* the last LLM call: its outcome, the body sent, what chat returned
  bMethod,              \* "none" | the method of the last bootstrap | "reinitialize"
  kgRelations,          \* memory.knowledge_graph: the edges between the entities
  bStats,               \* nodes_added / edges_added the last bootstrap returned
  \* --- GameEngine.extract_updates_from_response
  xTurns,               \* the number of calls so far
  xCase,                \* what the agent, the local processor and the saves did in the last call
  xApplied,             \* the extractors whose deltas the last call put into the graph
  xResult,              \* whose counters the last call returned: "agent" | "local" | "zeros"
  \* --- request frames on the plugin channel
  wsMsg,                \* socket -> the last request frame received: its action and request_id
  \* --- the other endpoints
  conversation_history, \* session -> length of memory.basic_memory.conversation_history of its engine
  lastReset,            \* the last POST /sessions/{id}/reset: its input and its answer
  lastEnhance,          \* the last POST /enhance_prompt: its input, the context retrieved, its answer
  tavernOrder,          \* the keys of `sessions` that start with "tavern_", in the order of creation
  lastCurrent,          \* the last GET /tavern/current_session: its answer
  lastMode,             \* the last POST /system/tavern_mode: its payload and its answer
  \* --- the stored submissions of the plugin
  plugOrder,            \* the keys of plugin_character_data in the order of the dict
  plugCard,             \* character id -> the "character_data" stored under it (whose request's card)
  jCard,                \* caller -> session -> character_card of its _trigger_auto_reinit
  \* --- TavernModeManager of the engine
  is_tavern_mode,       \* the flag of the manager
  connector,            \* "none" | "set": the SillyTavernConnector of the manager
  saved_session_data,   \* what save_current_session noted: the time and the sizes of the graph
  backup_before_tavern, \* data/backup_before_tavern.graphml: the graph saved, or NoBackup
  lastEnter             \* the result of the last enter_tavern_mode

chanVars == <<TAVERN_MODE_ACTIVE, active_connections, wsPc, wsSid, wsOld, wsState, closeCalls, frames>>
regVars == <<sessions, session_creation_locks, lockHeld, constructed, graph, disk, registered,
             sliding_window_managers, conflict_resolvers>>
callVars == <<cKind, cPc, cSid, cLock, cEngine, cResp>>
resetVars == <<rPc, rKind, rKeys, rBound>>
delVars == <<kgNodes, kgEdges, storeWildcards, dPc, dEntry, dSteps, nodes_deleted, edges_deleted, dStats>>
\* Every handler but the resets leaves resetVars alone: they go with the task
\* table and with elseVars, one of which each of them leaves unchanged.
bootVars == <<kgEntities, bCard, bReply, bMethod, kgRelations, bStats>>
turnVars == <<xTurns, xCase, xApplied, xResult>>
reqVars == <<wsMsg>>
histVars == <<conversation_history, lastReset>>
tavVars == <<tavernOrder, lastCurrent>>
cardVars == <<plugOrder, plugCard, jCard>>
uiVars == <<is_tavern_mode, connector, saved_session_data, backup_before_tavern, lastEnter>>
apiVars == <<histVars, lastEnhance, tavVars, lastMode, cardVars, uiVars>>
notCard == <<delVars, bootVars, turnVars, reqVars, histVars, lastEnhance, tavVars, lastMode, uiVars>>
notUi == <<delVars, turnVars, reqVars, histVars, lastEnhance, tavVars, lastMode, cardVars>>
engineVars == <<delVars, bootVars, turnVars, reqVars, apiVars>>
taskVars == <<initialization_tasks, resetVars, engineVars>>
convVars == <<sliding_window, turn_sequence, inFlight, kPc, kSid, kTarget, kHow, kResp, kHist>>
plugVars == <<pending_coordinated_reinits, plugin_character_data, cName, jPc, jEngine>>
elseVars == <<convVars, plugVars, resetVars, engineVars>>
vars == <<loop, chanVars, regVars, callVars, taskVars, convVars, plugVars>>

\* The variables of the server, and what the steps inside an engine leave alone.
svcVars == <<loop, chanVars, regVars, callVars, initialization_tasks, resetVars, convVars, plugVars>>
notGraph == <<svcVars, bootVars, turnVars, reqVars, apiVars>>
notBoot == <<svcVars, delVars, turnVars, reqVars, apiVars>>

\* What the plugin-channel actions leave alone.
notChan == <<regVars, callVars, taskVars, elseVars>>

Ws(w) == <<"ws", w>>

\* ------------------------------------------------------ ConnectionManager

\* ConnectionManager.disconnect(session_id, websocket): the mapping is removed
\* only when it is this very socket.
disconnect_Any(conns, s, w) ==
  [conns EXCEPT ![s] = None]

disconnect(conns, s, w) ==
  IF conns[s] # None /\ conns[s] = w THEN [conns EXCEPT ![s] = None] ELSE conns

\* A frame is handed to send_json; the call raises on a transport that is not
\* open.
CanSend(w) == wsState[w] = "open"

PushFrame(fr, w, type, ref) ==
  [fr EXCEPT ![w] = Append(@, <<type, ref>>)]

\* old_ws.close(code=1012): the call is recorded; it closes an open transport
\* and raises (swallowed) on one that is closed already.
CloseOld_Skip(old) ==
  /\ closeCalls' = closeCalls
  /\ wsState' = wsState

CloseOld(old) ==
  /\ closeCalls' = [closeCalls EXCEPT ![old] = @ \cup {CODE_REPLACED}]
  /\ wsState' = [wsState EXCEPT ![old] = "closed"]

\* ------------------------------------------------------ websocket_endpoint

\* The handler with the gate left out.
WsEndpoint_NoGate(w, s) ==
  /\ loop = Idle
  /\ wsPc[w] = "new"
  /\ wsSid' = [wsSid EXCEPT ![w] = s]
  /\ wsState' = [wsState EXCEPT ![w] = "open"]
  /\ wsPc' = [wsPc EXCEPT ![w] = "lookup"]
  /\ UNCHANGED <<loop, TAVERN_MODE_ACTIVE, active_connections, wsOld, closeCalls, frames>>
  /\ UNCHANGED notChan

\* The handler starts: the gate is read once, then websocket.accept() is
\* awaited (directly when gated, inside manager.connect otherwise).
WsEndpoint(w, s) ==
  /\ loop = Idle
  /\ wsPc[w] = "new"
  /\ wsSid' = [wsSid EXCEPT ![w] = s]
  /\ wsState' = [wsState EXCEPT ![w] = "open"]
  /\ wsPc' = [wsPc EXCEPT ![w] = IF TAVERN_MODE_ACTIVE THEN "lookup" ELSE "gate_close"]
  /\ UNCHANGED <<loop, TAVERN_MODE_ACTIVE, active_connections, wsOld, closeCalls, frames>>
  /\ UNCHANGED notChan

\* Gated: close(code=1008) and return.
GateClose(w) ==
  /\ loop = Idle
  /\ wsPc[w] = "gate_close"
  /\ closeCalls' = [closeCalls EXCEPT ![w] = @ \cup {CODE_POLICY}]
  /\ wsState' = [wsState EXCEPT ![w] = "closed"]
  /\ wsPc' = [wsPc EXCEPT ![w] = "gate_done"]
  /\ UNCHANGED <<loop, TAVERN_MODE_ACTIVE, active_connections, wsSid, wsOld, frames>>
  /\ UNCHANGED notChan

\* connect after accept: look the session's socket up; a different one is
\* closed (an await), otherwise control runs on to the store.
ConnectLookup(w) ==
  /\ loop = Idle
  /\ wsPc[w] = "lookup"
  /\ LET old == active_connections[wsSid[w]] IN
       /\ wsOld' = [wsOld EXCEPT ![w] = old]
       /\ IF old # None /\ old # w
            THEN /\ CloseOld(old)
                 /\ loop' = Idle
            ELSE /\ UNCHANGED <<closeCalls, wsState>>
                 /\ loop' = Ws(w)
       /\ wsPc' = [wsPc EXCEPT ![w] = "store"]
  /\ UNCHANGED <<TAVERN_MODE_ACTIVE, active_connections, wsSid, frames>>
  /\ UNCHANGED notChan

\* self.active_connections[session_id] = websocket
ConnectStore(w) ==
  /\ loop \in {Idle, Ws(w)}
  /\ wsPc[w] = "store"
  /\ (loop = Idle) <=> (wsOld[w] # None /\ wsOld[w] # w)
  /\ active_connections' = [active_connections EXCEPT ![wsSid[w]] = w]
  /\ wsPc' = [wsPc EXCEPT ![w] = "established"]
  /\ loop' = Ws(w)
  /\ UNCHANGED <<TAVERN_MODE_ACTIVE, wsSid, wsOld, wsState, closeCalls, frames>>
  /\ UNCHANGED notChan

\* send_json(connection_established), in the segment of the store; a failed
\* send ends the handler through `except Exception`.
SendEstablished(w) ==
  /\ loop = Ws(w)
  /\ wsPc[w] = "established"
  /\ loop' = Idle
  /\ frames' = PushFrame(frames, w, "connection_established", 0)
  /\ IF CanSend(w)
       THEN /\ wsPc' = [wsPc EXCEPT ![w] = "receive"]
            /\ UNCHANGED active_connections
       ELSE /\ active_connections' = disconnect(active_connections, wsSid[w], w)
            /\ wsPc' = [wsPc EXCEPT ![w] =
                 IF active_connections[wsSid[w]] = w THEN "done_unbound" ELSE "done_kept"]
  /\ UNCHANGED <<TAVERN_MODE_ACTIVE, wsSid, wsOld, wsState, closeCalls>>
  /\ UNCHANGED notChan

\* The plugin (or the network) closes the transport.
ClientClose(w) ==
  /\ wsState[w] = "open"
  /\ wsState' = [wsState EXCEPT ![w] = "closed"]
  /\ UNCHANGED <<loop, TAVERN_MODE_ACTIVE, active_connections, wsPc, wsSid, wsOld, closeCalls, frames>>
  /\ UNCHANGED notChan

\* receive_json raises on a closed transport: WebSocketDisconnect or another
\* exception, both end in manager.disconnect(session_id, websocket).
ReceiveFail(w) ==
  /\ loop = Idle
  /\ wsPc[w] = "receive"
  /\ wsState[w] = "closed"
  /\ active_connections' = disconnect(active_connections, wsSid[w], w)
  /\ wsPc' = [wsPc EXCEPT ![w] =
       IF active_connections[wsSid[w]] = w THEN "done_unbound" ELSE "done_kept"]
  /\ UNCHANGED <<loop, TAVERN_MODE_ACTIVE, wsSid, wsOld, wsState, closeCalls, frames>>
  /\ UNCHANGED notChan

\* The value of "active" in the JSON body of POST /system/tavern_mode: a
\* boolean, a number, a string (its characters), null, a list, or no such key.
Payload(type, b, n, s) == [type |-> type, b |-> b, n |-> n, s |-> s]
Bool(b) == Payload("bool", b, 0, <<>>)
Missing == Payload("missing", FALSE, 0, <<>>)
ActiveStrings ==
  {<<"o", "n">>, <<" ", "O", "N">>, <<"1">>, <<"o", "f", "f">>, <<"n", "o">>, <<>>}
Payloads ==
  {Bool(b) : b \in BOOLEAN} \cup {Payload("number", FALSE, n, <<>>) : n \in 0..2}
    \cup {Payload("string", FALSE, 0, s) : s \in ActiveStrings}
    \cup {Missing, Payload("null", FALSE, 0, <<>>), Payload("list", FALSE, 0, <<>>)}

\* v.strip().lower() of to_bool
StripLower(s) ==
  LET RECURSIVE strip_(_)
      strip_(x) ==
        IF x = <<>> THEN x
        ELSE IF Head(x) = " " THEN strip_(Tail(x))
        ELSE IF x[Len(x)] = " " THEN strip_(SubSeq(x, 1, Len(x) - 1))
        ELSE x
      stripped == strip_(s)
  IN [i \in DOMAIN stripped |->
        IF stripped[i] = "O" THEN "o" ELSE IF stripped[i] = "N" THEN "n" ELSE stripped[i]]

\* to_bool: a boolean is itself, a number is true unless 0, a string is true
\* when it is one of "1", "true", "yes", "on"; None (the key is missing, or
\* null) and everything else is false.
to_bool(v) ==
  CASE v.type = "bool" -> v.b
    [] v.type = "number" -> v.n # 0
    [] v.type = "string" ->
         StripLower(v.s) \in {<<"1">>, <<"t", "r", "u", "e">>, <<"y", "e", "s">>, <<"o", "n">>}
    [] OTHER -> FALSE

NoMode == [status |-> "none", payload |-> Missing]

\* POST /system/tavern_mode: the flag becomes to_bool(payload.get("active"))
\* and the answer is 200; no value of "active" makes to_bool raise.
set_tavern_mode_state(active) ==
  /\ loop = Idle
  /\ TAVERN_MODE_ACTIVE' = to_bool(active)
  /\ lastMode' = [status |-> "200", payload |-> active]
  /\ UNCHANGED <<loop, active_connections, wsPc, wsSid, wsOld, wsState, closeCalls, frames>>
  /\ UNCHANGED <<regVars, callVars, initialization_tasks, resetVars, convVars, plugVars>>
  /\ UNCHANGED <<delVars, bootVars, turnVars, reqVars, histVars, lastEnhance, tavVars, cardVars, uiVars>>

\* ------------------------------------------------------- session registry

Callers == 1..NumCallers
\* A caller constructs at most one engine and one Lock: both carry its number.
\* A session that exists from the start (RegWith) was created by an earlier
\* /initialize: its engine and its Lock carry a negative number.
BornEngine(s) == IF s = "s1" THEN -1 ELSE -2
Engines == Callers \cup {BornEngine(s) : s \in SessionIds}
Locks == Engines

\* The knowledge graph, as far as the registry is concerned: the node ids and
\* the edges.  Bootstrap upserts the main character (simple fallback), or the
\* main character and what else the LLM payload names; a bootstrap whose
\* fallback fails as well adds nothing ("method": "failed").
EmptyGraph == [nodes |-> {}, edges |-> {}]
BootFallback == [nodes |-> {"main"}, edges |-> {}]
BootLLM == [nodes |-> {"main", "other"}, edges |-> {<<"main", "other">>}]
BootOutcomes == {BootFallback, BootLLM, EmptyGraph}
Upsert(g, d) == [nodes |-> g.nodes \cup d.nodes, edges |-> g.edges \cup d.edges]
Stats(g) == [nodes |-> Cardinality(g.nodes), edges |-> Cardinality(g.edges)]
\* init_result: nodes_added / edges_added of the bootstrap.
BootResult(d) == Stats(d)

\* What the registry actions leave alone.
notReg == <<chanVars, taskVars, elseVars>>

\* get_or_create_session_engine, on a worker thread (run_in_threadpool): the
\* steps are the thread's reads and writes of the shared dictionaries.

\* `if session_id in sessions: return sessions[session_id]`
GcCheck(c) ==
  /\ cPc[c] = "gc_check"
  /\ IF sessions[cSid[c]] # None
       THEN /\ cEngine' = [cEngine EXCEPT ![c] = sessions[cSid[c]]]
            /\ cPc' = [cPc EXCEPT ![c] = "gc_ret"]
       ELSE /\ cPc' = [cPc EXCEPT ![c] = "gc_lockcheck"]
            /\ UNCHANGED cEngine
  /\ UNCHANGED <<loop, regVars, cKind, cSid, cLock, cResp, notReg>>

\* `if session_id not in session_creation_locks:`
GcLockCheck(c) ==
  /\ cPc[c] = "gc_lockcheck"
  /\ cPc' = [cPc EXCEPT ![c] =
       IF session_creation_locks[cSid[c]] = None THEN "gc_lockset" ELSE "gc_lockget"]
  /\ UNCHANGED <<loop, regVars, cKind, cSid, cLock, cEngine, cResp, notReg>>

\* `session_creation_locks[session_id] = Lock()`
GcLockSet(c) ==
  /\ cPc[c] = "gc_lockset"
  /\ session_creation_locks' = [session_creation_locks EXCEPT ![cSid[c]] = c]
  /\ cPc' = [cPc EXCEPT ![c] = "gc_lockget"]
  /\ UNCHANGED <<loop, sessions, lockHeld, constructed, graph, disk, registered,
                 sliding_window_managers, conflict_resolvers,
                 cKind, cSid, cLock, cEngine, cResp, notReg>>

\* `with session_creation_locks[session_id]:` evaluates the dictionary entry ...
GcLockGet(c) ==
  /\ cPc[c] = "gc_lockget"
  /\ cLock' = [cLock EXCEPT ![c] = session_creation_locks[cSid[c]]]
  /\ cPc' = [cPc EXCEPT ![c] = "gc_acquire"]
  /\ UNCHANGED <<loop, regVars, cKind, cSid, cEngine, cResp, notReg>>

\* ... and acquires that Lock.
GcAcquire(c) ==
  /\ cPc[c] = "gc_acquire"
  /\ lockHeld[cLock[c]] = None
  /\ lockHeld' = [lockHeld EXCEPT ![cLock[c]] = c]
  /\ cPc' = [cPc EXCEPT ![c] = "gc_recheck"]
  /\ UNCHANGED <<loop, sessions, session_creation_locks, constructed, graph, disk, registered,
                 sliding_window_managers, conflict_resolvers,
                 cKind, cSid, cLock, cEngine, cResp, notReg>>

\* The re-check under the lock; when the session is still absent the engine is
\* constructed: GRAGMemory(auto_load_entities=True) loads the session's graph
\* file.  The construction reads files and may raise (ok = FALSE).
GcRecheck(c, ok) ==
  /\ cPc[c] = "gc_recheck"
  /\ IF sessions[cSid[c]] # None
       THEN /\ cEngine' = [cEngine EXCEPT ![c] = sessions[cSid[c]]]
            /\ lockHeld' = [lockHeld EXCEPT ![cLock[c]] = None]
            /\ cPc' = [cPc EXCEPT ![c] = "gc_ret"]
            /\ UNCHANGED <<constructed, graph>>
       ELSE IF ok
         THEN /\ constructed' = [constructed EXCEPT ![c] = cSid[c]]
              /\ graph' = [graph EXCEPT ![c] = disk[cSid[c]]]
              /\ cPc' = [cPc EXCEPT ![c] = "gc_publish"]
              /\ UNCHANGED <<cEngine, lockHeld>>
         ELSE /\ lockHeld' = [lockHeld EXCEPT ![cLock[c]] = None]
              /\ cPc' = [cPc EXCEPT ![c] = "gc_raise"]
              /\ UNCHANGED <<cEngine, constructed, graph>>
  /\ UNCHANGED <<loop, sessions, session_creation_locks, disk, registered,
                 sliding_window_managers, conflict_resolvers,
                 cKind, cSid, cLock, cResp, notReg>>

\* `sessions[session_id] = engine; return engine` (the `with` releases).
GcPublish(c) ==
  /\ cPc[c] = "gc_publish"
  /\ sessions' = [sessions EXCEPT ![cSid[c]] = c]
  /\ lockHeld' = [lockHeld EXCEPT ![cLock[c]] = None]
  /\ cEngine' = [cEngine EXCEPT ![c] = c]
  /\ cPc' = [cPc EXCEPT ![c] = "gc_ret"]
  /\ UNCHANGED <<loop, session_creation_locks, constructed, graph, disk, registered,
                 sliding_window_managers, conflict_resolvers,
                 cKind, cSid, cLock, cResp, notReg>>

\* GameEngine.initialize_from_tavern_data on a worker thread: the bootstrap
\* upserts into the engine's graph and saves it; it never raises.
Bootstrap(c, d) ==
  /\ cPc[c] = "boot"
  /\ graph' = [graph EXCEPT ![cEngine[c]] = Upsert(@, d)]
  /\ disk' = IF d = EmptyGraph THEN disk
             ELSE [disk EXCEPT ![cSid[c]] = Upsert(graph[cEngine[c]], d)]
  /\ cResp' = [cResp EXCEPT ![c] = [kind |-> "bootstrapped", stats |-> BootResult(d)]]
  /\ cPc' = [cPc EXCEPT ![c] = "boot_ret"]
  /\ UNCHANGED <<loop, sessions, session_creation_locks, lockHeld, constructed, registered,
                 sliding_window_managers, conflict_resolvers,
                 cKind, cSid, cLock, cEngine, notReg>>

\* get_or_create_sliding_window_manager followed by get_or_create_conflict_resolver,
\* inside the callers' `try ... except Exception`: without an engine for the
\* session the first raises ValueError and nothing is created.
ConfigureWindow(s, wanted) ==
  IF wanted /\ (sliding_window_managers[s] # None \/ sessions[s] # None)
    THEN /\ sliding_window_managers' =
              IF sliding_window_managers[s] = None
                THEN [sliding_window_managers EXCEPT ![s] = sessions[s]]
                ELSE sliding_window_managers
         /\ conflict_resolvers' = conflict_resolvers \cup {s}
    ELSE UNCHANGED <<sliding_window_managers, conflict_resolvers>>

\* ----------------------------------------------------- POST /initialize

NoStats == [nodes |-> -1, edges |-> -1]
NoResp == [kind |-> "none", message |-> NoStats, graph_stats |-> NoStats]

\* InitializeResponse declares session_id, message and graph_stats only: the
\* nodes_added / edges_added keywords of the early returns are not fields of
\* the model, so the counts reach the caller in the message text and
\* graph_stats keeps its default {}.
ExistingResponse(g) ==
  [kind |-> "existing", message |-> Stats(g), graph_stats |-> NoStats]

\* storage_manager.register_tavern_character unless is_test; it writes the
\* character mapping and may raise.
Register(s, is_test) ==
  registered' = IF is_test THEN registered ELSE registered \cup {s}

\* The handler with the lookup of the existing session left out.
initialize_session_NoLookup(c, s, is_test, reg_ok) ==
  /\ loop = Idle
  /\ cKind[c] = "none"
  /\ cKind' = [cKind EXCEPT ![c] = "init"]
  /\ cSid' = [cSid EXCEPT ![c] = s]
  /\ reg_ok
  /\ Register(s, is_test)
  /\ cPc' = [cPc EXCEPT ![c] = "gc_check"]
  /\ UNCHANGED <<cResp, sessions, session_creation_locks, lockHeld, constructed, graph, disk,
                 sliding_window_managers, conflict_resolvers>>
  /\ UNCHANGED <<loop, cLock, cEngine, notReg>>

\* initialize_session up to its first await: a session that exists is answered
\* from its graph at once; otherwise the character is registered and
\* get_or_create_session_engine is handed to the thread pool.
initialize_session(c, s, is_test, reg_ok) ==
  /\ loop = Idle
  /\ cKind[c] = "none"
  /\ cKind' = [cKind EXCEPT ![c] = "init"]
  /\ cSid' = [cSid EXCEPT ![c] = s]
  /\ IF sessions[s] # None
       THEN /\ cResp' = [cResp EXCEPT ![c] = ExistingResponse(graph[sessions[s]])]
            /\ cPc' = [cPc EXCEPT ![c] = "done"]
            /\ UNCHANGED regVars
       ELSE IF reg_ok
         THEN /\ Register(s, is_test)
              /\ cPc' = [cPc EXCEPT ![c] = "gc_check"]
              /\ UNCHANGED <<cResp, sessions, session_creation_locks, lockHeld, constructed,
                             graph, disk, sliding_window_managers, conflict_resolvers>>
         ELSE /\ cResp' = [cResp EXCEPT ![c] = [NoResp EXCEPT !.kind = "error"]]
              /\ cPc' = [cPc EXCEPT ![c] = "done"]
              /\ UNCHANGED regVars
  /\ UNCHANGED <<loop, cLock, cEngine, notReg>>

\* The engine is there: a graph that has nodes is answered as it is, an empty
\* one is bootstrapped on the thread pool.  A failed construction is the 500.
InitializeAfterEngine(c) ==
  /\ loop = Idle
  /\ cKind[c] = "init"
  /\ cPc[c] \in {"gc_ret", "gc_raise"}
  /\ IF cPc[c] = "gc_raise"
       THEN /\ cResp' = [cResp EXCEPT ![c] = [NoResp EXCEPT !.kind = "error"]]
            /\ cPc' = [cPc EXCEPT ![c] = "done"]
       ELSE IF graph[cEngine[c]].nodes # {}
         THEN /\ cResp' = [cResp EXCEPT ![c] = ExistingResponse(graph[cEngine[c]])]
              /\ cPc' = [cPc EXCEPT ![c] = "done"]
         ELSE /\ cPc' = [cPc EXCEPT ![c] = "boot"]
              /\ UNCHANGED cResp
  /\ UNCHANGED <<loop, regVars, cKind, cSid, cLock, cEngine, notReg>>

\* After the bootstrap: the sliding window is configured when the request asks
\* for it (window: session_config has a sliding_window entry, read here for the
\* first time), and the response carries init_result as graph_stats.
InitializeFinish(c, window) ==
  /\ loop = Idle
  /\ cKind[c] = "init"
  /\ cPc[c] = "boot_ret"
  /\ ConfigureWindow(cSid[c], window)
  /\ cResp' = [cResp EXCEPT ![c] =
       [kind |-> "initialized", message |-> NoStats, graph_stats |-> cResp[c].stats]]
  /\ cPc' = [cPc EXCEPT ![c] = "done"]
  /\ UNCHANGED <<loop, sessions, session_creation_locks, lockHeld, constructed, graph, disk,
                 registered, cKind, cSid, cLock, cEngine, notReg>>

\* ------------------------------------------------- POST /initialize_async

\* The background task of task id c (task ids are the callers' numbers).
Task(c) == <<"task", c>>
Tasks == 1..NumTasks

\* InitTaskStatus and the task record; progress is counted in tenths.
PENDING == "pending"
RUNNING == "running"
COMPLETED == "completed"
FAILED == "failed"
NoError == "None"
NoTask == [status |-> "absent", progress |-> 0, session_id |-> "", result |-> NoStats,
           error |-> NoError]

\* What send_message leaves alone of the plugin channel.
chanRest == <<TAVERN_MODE_ACTIVE, wsPc, wsSid, wsOld, wsState, closeCalls>>

\* send_message with the failure of the send ignored.
send_message_KeepBinding(s, type, ref) ==
  LET w == active_connections[s] IN
    IF w = None
      THEN UNCHANGED <<active_connections, frames>>
      ELSE /\ frames' = PushFrame(frames, w, type, ref)
           /\ UNCHANGED active_connections

\* ConnectionManager.send_message(session_id, message): nothing without a bound
\* socket; a send that raises drops the binding of that socket.
send_message(s, type, ref) ==
  LET w == active_connections[s] IN
    IF w = None
      THEN UNCHANGED <<active_connections, frames>>
      ELSE /\ frames' = PushFrame(frames, w, type, ref)
           /\ active_connections' =
                IF CanSend(w) THEN active_connections ELSE disconnect(active_connections, s, w)

\* initialize_session_async: the record is created PENDING and the background
\* task is queued.
initialize_session_async(c, s) ==
  /\ loop = Idle
  /\ cKind[c] = "none"
  /\ initialization_tasks' = [initialization_tasks EXCEPT ![c] = [NoTask EXCEPT !.status = PENDING]]
  /\ cKind' = [cKind EXCEPT ![c] = "async"]
  /\ cSid' = [cSid EXCEPT ![c] = s]
  /\ cPc' = [cPc EXCEPT ![c] = "bg_new"]
  /\ UNCHANGED <<loop, cLock, cEngine, cResp, regVars, chanVars, elseVars>>

\* perform_async_initialization starts: RUNNING, 0.1.
\* initialization_tasks[task_id][...] = ... on a record that a full reset has
\* removed raises KeyError; the `except` of the task writes the record too,
\* so the KeyError is raised again there and leaves the task unhandled.
TaskKeyError(c) ==
  /\ cPc' = [cPc EXCEPT ![c] = "bg_crashed"]
  /\ loop' = Idle
  /\ UNCHANGED <<initialization_tasks, cKind, cSid, cLock, cEngine, cResp, regVars, chanVars,
                 elseVars>>

AsyncStart(c) ==
  /\ loop = Idle
  /\ cKind[c] = "async"
  /\ cPc[c] = "bg_new"
  /\ IF initialization_tasks[c] = NoTask
       THEN TaskKeyError(c)
       ELSE /\ initialization_tasks' =
                 [initialization_tasks EXCEPT ![c].status = RUNNING, ![c].progress = 1]
            /\ cPc' = [cPc EXCEPT ![c] = "bg_register"]
            /\ loop' = Task(c)
            /\ UNCHANGED <<cKind, cSid, cLock, cEngine, cResp, regVars, chanVars, elseVars>>

\* The `except` of the task: FAILED with the error text.
Fail(c, why) ==
  initialization_tasks' = [initialization_tasks EXCEPT ![c].status = FAILED, ![c].error = why]

\* In the same segment: the character is registered unless is_test (a raise
\* fails the task), then 0.2 and get_or_create_session_engine goes to the thread
\* pool.
AsyncRegister(c, is_test, reg_ok) ==
  /\ loop = Task(c)
  /\ cPc[c] = "bg_register"
  /\ loop' = Idle
  /\ IF ~is_test /\ ~reg_ok
       THEN /\ Fail(c, "register")
            /\ cPc' = [cPc EXCEPT ![c] = "bg_done"]
            /\ UNCHANGED registered
       ELSE /\ Register(cSid[c], is_test)
            /\ initialization_tasks' = [initialization_tasks EXCEPT ![c].progress = 2]
            /\ cPc' = [cPc EXCEPT ![c] = "gc_check"]
  /\ UNCHANGED <<sessions, session_creation_locks, lockHeld, constructed, graph, disk,
                 sliding_window_managers, conflict_resolvers>>
  /\ UNCHANGED <<cKind, cSid, cLock, cEngine, cResp, chanVars, elseVars>>

\* The step from the engine to the bootstrap without its milestone.
AsyncAfterEngine_NoProgress(c) ==
  /\ loop = Idle
  /\ cKind[c] = "async"
  /\ cPc[c] \in {"gc_ret", "gc_raise"}
  /\ IF cPc[c] = "gc_raise"
       THEN /\ Fail(c, "engine")
            /\ cPc' = [cPc EXCEPT ![c] = "bg_done"]
       ELSE /\ UNCHANGED initialization_tasks
            /\ cPc' = [cPc EXCEPT ![c] = "boot"]
  /\ UNCHANGED <<loop, cKind, cSid, cLock, cEngine, cResp, regVars, chanVars, elseVars>>

\* The engine is there: 0.6 and the bootstrap goes to the thread pool (the task
\* does not look at the graph first).  A failed construction fails the task.
AsyncAfterEngine(c) ==
  /\ loop = Idle
  /\ cKind[c] = "async"
  /\ cPc[c] \in {"gc_ret", "gc_raise"}
  /\ IF initialization_tasks[c] = NoTask
       THEN TaskKeyError(c)
       ELSE /\ IF cPc[c] = "gc_raise"
                 THEN /\ Fail(c, "engine")
                      /\ cPc' = [cPc EXCEPT ![c] = "bg_done"]
                 ELSE /\ initialization_tasks' = [initialization_tasks EXCEPT ![c].progress = 6]
                      /\ cPc' = [cPc EXCEPT ![c] = "boot"]
            /\ UNCHANGED <<loop, cKind, cSid, cLock, cEngine, cResp, regVars, chanVars, elseVars>>

\* After the bootstrap: 0.8 and the sliding window is configured when the
\* request asks for it.
AsyncAfterBoot(c, window) ==
  /\ loop = Idle
  /\ cKind[c] = "async"
  /\ cPc[c] = "boot_ret"
  /\ IF initialization_tasks[c] = NoTask
       THEN TaskKeyError(c)
       ELSE /\ initialization_tasks' = [initialization_tasks EXCEPT ![c].progress = 8]
            /\ ConfigureWindow(cSid[c], window)
            /\ cPc' = [cPc EXCEPT ![c] = "bg_complete"]
            /\ loop' = Task(c)
            /\ UNCHANGED <<sessions, session_creation_locks, lockHeld, constructed, graph, disk,
                           registered>>
            /\ UNCHANGED <<cKind, cSid, cLock, cEngine, cResp, chanVars, elseVars>>

\* The completion with the record left as it is.
AsyncComplete_NoStatus(c) ==
  /\ loop = Task(c)
  /\ cPc[c] = "bg_complete"
  /\ UNCHANGED initialization_tasks
  /\ cPc' = [cPc EXCEPT ![c] = "bg_push"]
  /\ UNCHANGED <<loop, cKind, cSid, cLock, cEngine, cResp, regVars, chanVars, elseVars>>

\* In the same segment: COMPLETED, 1.0, session_id and result.
AsyncComplete(c) ==
  /\ loop = Task(c)
  /\ cPc[c] = "bg_complete"
  /\ initialization_tasks' = [initialization_tasks EXCEPT
       ![c].status = COMPLETED, ![c].progress = 10,
       ![c].session_id = cSid[c], ![c].result = cResp[c].stats]
  /\ cPc' = [cPc EXCEPT ![c] = "bg_push"]
  /\ UNCHANGED <<loop, cKind, cSid, cLock, cEngine, cResp, regVars, chanVars, elseVars>>

\* ... and the initialization_complete event is handed to send_message.
AsyncPush(c) ==
  /\ loop = Task(c)
  /\ cPc[c] = "bg_push"
  /\ send_message(cSid[c], "initialization_complete", c)
  /\ cPc' = [cPc EXCEPT ![c] = "bg_done"]
  /\ loop' = Idle
  /\ UNCHANGED <<cKind, cSid, cLock, cEngine, cResp, initialization_tasks, regVars, chanRest, elseVars>>

\* ------------------------------------------------ POST /process_conversation

ConvReqs == 1..NumConv
Conv(k) == <<"conv", k>>

\* The defaults of get_or_create_sliding_window_manager.
WINDOW_SIZE == 4
\* The default delay read as one more.
PROCESSING_DELAY_Two == 1 + 1
PROCESSING_DELAY == 1

\* SlidingWindowManager: a FIFO of turns bounded by the capacity (an overflow
\* drops the head); the target is the turn `delay` places before the newest one.
\* A turn carries the version of its text: 0 as it was pushed, one more each
\* time the authoritative history replaces it.
NoTurn == [sequence |-> 0, processed |-> FALSE, text |-> -1]
Push(w, seq) ==
  LET a == Append(w, [sequence |-> seq, processed |-> FALSE, text |-> 0])
  IN IF Len(a) > WINDOW_SIZE THEN Tail(a) ELSE a
\* The target taken at the tail of the window.
Target_Newest(w) ==
  IF Len(w) >= PROCESSING_DELAY + 1 THEN w[Len(w)] ELSE NoTurn
Target(w) ==
  IF Len(w) >= PROCESSING_DELAY + 1 THEN w[Len(w) - PROCESSING_DELAY] ELSE NoTurn
MarkProcessed(w, seq) ==
  [i \in DOMAIN w |-> IF w[i].sequence = seq THEN [w[i] EXCEPT !.processed = TRUE] ELSE w[i]]
\* The target taken whether or not it has been processed.
ReadyTarget_AnyTurn(w) == Target(w)
\* The coordinator's "ready target": the target, unless that turn has been
\* processed already (a turn is extracted once).
ReadyTarget(w) == IF Target(w).processed THEN NoTurn ELSE Target(w)

\* ProcessConversationResponse and SyncConversationResponse, as far as the
\* window decides them.
NoConvResp == [kind |-> "none", turn_sequence |-> 0, target_processed |-> FALSE, window_size |-> 0,
               conflicts_detected |-> 0, conflicts_resolved |-> 0, window_synced |-> FALSE]
ConvResp(seq, processed, size) ==
  [NoConvResp EXCEPT !.kind = "conversation", !.turn_sequence = seq,
                     !.target_processed = processed, !.window_size = size]
SyncResp(detected, resolved, synced) ==
  [NoConvResp EXCEPT !.kind = "sync", !.conflicts_detected = detected,
                     !.conflicts_resolved = resolved, !.window_synced = synced]

\* The deltas extracted from the turn with sequence seq: the agent finds an
\* entity and its relation to the main character, the local rules the entity.
TurnDelta(seq, how) ==
  [nodes |-> {ToString(seq)},
   edges |-> IF how = "agent" THEN {<<"main", ToString(seq)>>} ELSE {}]

\* Who holds the event loop while process_new_conversation runs: as if the
\* call were handed to the thread pool.
ExtractionOwner_Threadpool(k) == Idle

\* process_new_conversation is called on the event loop, without an await:
\* the handler keeps the loop until the call returns.
ExtractionOwner(k) == Conv(k)

\* process_conversation up to the extraction: 404 without the session; the
\* manager is created on first use; process_new_conversation pushes the turn
\* and, with a ready target and no extraction in flight, marks the target
\* in-flight.  Without a target the handler answers target_processed = false.
process_conversation(k, s) ==
  /\ loop = Idle
  /\ kPc[k] = "new"
  /\ kSid' = [kSid EXCEPT ![k] = s]
  /\ IF sessions[s] = None
       THEN /\ kPc' = [kPc EXCEPT ![k] = "404"]
            /\ UNCHANGED <<loop, sliding_window_managers, sliding_window, turn_sequence, inFlight,
                           kTarget, kResp>>
       ELSE LET seq == turn_sequence[s] + 1
                pushed == Push(sliding_window[s], seq)
                target == ReadyTarget(pushed)
            IN /\ sliding_window_managers' =
                    IF sliding_window_managers[s] = None
                      THEN [sliding_window_managers EXCEPT ![s] = sessions[s]]
                      ELSE sliding_window_managers
               /\ sliding_window' = [sliding_window EXCEPT ![s] = pushed]
               /\ turn_sequence' = [turn_sequence EXCEPT ![s] = seq]
               /\ IF target.sequence # 0 /\ inFlight[s] = {}
                    THEN /\ inFlight' = [inFlight EXCEPT ![s] = {target.sequence}]
                         /\ kTarget' = [kTarget EXCEPT ![k] = target.sequence]
                         /\ kPc' = [kPc EXCEPT ![k] = "extract"]
                         /\ loop' = ExtractionOwner(k)
                         /\ UNCHANGED kResp
                    ELSE /\ kPc' = [kPc EXCEPT ![k] = "done"]
                         /\ kResp' = [kResp EXCEPT ![k] = ConvResp(seq, FALSE, Len(pushed))]
                         /\ UNCHANGED <<loop, inFlight, kTarget>>
  /\ UNCHANGED <<sessions, session_creation_locks, lockHeld, constructed, graph, disk, registered,
                 conflict_resolvers, kHow, kHist>>
  /\ UNCHANGED <<chanVars, callVars, taskVars, plugVars>>

\* The extraction of the target: the update agent, or the local rules when
\* the agent fails.
ConvExtract(k, how) ==
  /\ loop = ExtractionOwner(k)
  /\ kPc[k] = "extract"
  /\ kHow' = [kHow EXCEPT ![k] = how]
  /\ kPc' = [kPc EXCEPT ![k] = "apply"]
  /\ UNCHANGED <<loop, sliding_window, turn_sequence, inFlight, kSid, kTarget, kResp, kHist>>
  /\ UNCHANGED <<chanVars, regVars, callVars, taskVars, plugVars>>

\* The validated deltas are applied to the graph of the manager's memory and
\* saved, the target is marked processed and the in-flight mark is released.
ConvApply(k) ==
  /\ loop = ExtractionOwner(k)
  /\ kPc[k] = "apply"
  /\ LET s == kSid[k]
         e == sliding_window_managers[s]
         g == Upsert(graph[e], TurnDelta(kTarget[k], kHow[k]))
     IN /\ graph' = [graph EXCEPT ![e] = g]
        /\ disk' = [disk EXCEPT ![s] = g]
        /\ sliding_window' = [sliding_window EXCEPT ![s] = MarkProcessed(@, kTarget[k])]
        /\ inFlight' = [inFlight EXCEPT ![s] = @ \ {kTarget[k]}]
  /\ kPc' = [kPc EXCEPT ![k] = "notify"]
  /\ UNCHANGED <<loop, turn_sequence, kSid, kTarget, kHow, kResp, kHist>>
  /\ UNCHANGED <<sessions, session_creation_locks, lockHeld, constructed, registered,
                 sliding_window_managers, conflict_resolvers>>
  /\ UNCHANGED <<chanVars, callVars, taskVars, plugVars>>

\* Back in the handler: target_processed, so graph_updated is pushed.
ConvNotify(k) ==
  /\ loop = ExtractionOwner(k)
  /\ kPc[k] = "notify"
  /\ send_message(kSid[k], "graph_updated", k)
  /\ kPc' = [kPc EXCEPT ![k] = "done"]
  /\ kResp' = [kResp EXCEPT ![k] =
       ConvResp(turn_sequence[kSid[k]], TRUE, Len(sliding_window[kSid[k]]))]
  /\ loop' = Idle
  /\ UNCHANGED <<sliding_window, turn_sequence, inFlight, kSid, kTarget, kHow, kHist>>
  /\ UNCHANGED <<chanRest, regVars, callVars, taskVars, plugVars>>

\* ------------------------------------------------- POST /sync_conversation

\* What the authoritative history says about the turn n the session has
\* pushed: it has the same text as the local turn (all turns have: n = 1), a
\* different text, or it is absent from the history.
SyncOps == {"same", "differs", "absent"}
InWindow(w, n) == \E i \in DOMAIN w : w[i].sequence = n

\* ConflictResolver.sync_conversation_state: a local turn whose text differs
\* is replaced by the authoritative one (its processed flag stays, the graph
\* is not touched); a local turn the history does not have is removed; a turn
\* that has left the window is skipped.
SyncWindow(w, op, n) ==
  IF op = "differs"
    THEN [i \in DOMAIN w |-> IF w[i].sequence = n THEN [w[i] EXCEPT !.text = @ + 1] ELSE w[i]]
    ELSE IF op = "absent" THEN SelectSeq(w, LAMBDA turn : turn.sequence # n) ELSE w
SyncConflicts(w, op, n) == IF op = "differs" /\ InWindow(w, n) THEN 1 ELSE 0

\* The handler with the counters of the resolver dropped from the response.
sync_conversation_NoCounts(k, s, op, n) ==
  /\ loop = Idle
  /\ kPc[k] = "new"
  /\ sessions[s] # None
  /\ s \in conflict_resolvers \/ sliding_window_managers[s] # None
  /\ kSid' = [kSid EXCEPT ![k] = s]
  /\ kHist' = [kHist EXCEPT ![k] = <<op, n>>]
  /\ conflict_resolvers' = conflict_resolvers \cup {s}
  /\ sliding_window' = [sliding_window EXCEPT ![s] = SyncWindow(@, op, n)]
  /\ kResp' = [kResp EXCEPT ![k] = SyncResp(0, 0, TRUE)]
  /\ kPc' = [kPc EXCEPT ![k] = "done"]
  /\ UNCHANGED <<loop, turn_sequence, inFlight, kTarget, kHow>>
  /\ UNCHANGED <<sessions, session_creation_locks, lockHeld, constructed, graph, disk, registered,
                 sliding_window_managers>>
  /\ UNCHANGED <<chanVars, callVars, taskVars, plugVars>>

\* sync_conversation: 404 without the session; without a conflict resolver
\* and without a window manager to build one from, the answer is "not
\* available" (all zero, window_synced false); otherwise the resolver (created
\* on first use) synchronises the window, on the event loop and without an
\* await, and its counters are the response.
sync_conversation(k, s, op, n) ==
  /\ loop = Idle
  /\ kPc[k] = "new"
  /\ kSid' = [kSid EXCEPT ![k] = s]
  /\ kHist' = [kHist EXCEPT ![k] = <<op, n>>]
  /\ IF sessions[s] = None
       THEN /\ op = "same" /\ n = 1
            /\ kPc' = [kPc EXCEPT ![k] = "404"]
            /\ UNCHANGED <<conflict_resolvers, sliding_window, kResp>>
       ELSE IF s \notin conflict_resolvers /\ sliding_window_managers[s] = None
         THEN /\ op = "same" /\ n = 1
              /\ kPc' = [kPc EXCEPT ![k] = "done"]
              /\ kResp' = [kResp EXCEPT ![k] = SyncResp(0, 0, FALSE)]
              /\ UNCHANGED <<conflict_resolvers, sliding_window>>
         ELSE /\ IF op = "same" THEN n = 1 ELSE n <= turn_sequence[s]
              /\ conflict_resolvers' = conflict_resolvers \cup {s}
              /\ sliding_window' = [sliding_window EXCEPT ![s] = SyncWindow(@, op, n)]
              /\ kResp' = [kResp EXCEPT ![k] =
                   SyncResp(SyncConflicts(sliding_window[s], op, n),
                            SyncConflicts(sliding_window[s], op, n), TRUE)]
              /\ kPc' = [kPc EXCEPT ![k] = "done"]
  /\ UNCHANGED <<loop, turn_sequence, inFlight, kTarget, kHow>>
  /\ UNCHANGED <<sessions, session_creation_locks, lockHeld, constructed, graph, disk, registered,
                 sliding_window_managers>>
  /\ UNCHANGED <<chanVars, callVars, taskVars, plugVars>>

\* --------------------------------------------- plugin-facing HTTP endpoints

CharIds == {"A", "id1"}
CharNames == {"A", "B"}

\* req.character_data of a POST /tavern/submit_character: every request
\* carries its own card, named after the request.
NoCard == 0
Card(c) == c

\* plugin_character_data[key] = value: a new key goes to the end of the dict,
\* a key that exists keeps its place.
DictSet(order, key) ==
  IF \E k \in DOMAIN order : order[k] = key THEN order ELSE Append(order, key)

Http(endpoint, status) == [kind |-> "http", endpoint |-> endpoint, status |-> status]

\* storage_manager.get_session_info(session_id)["character_mapping_key"]: the
\* key under which the character of the session was registered; both sessions
\* are chats with character "A".  No info for an unregistered session.
HasSessionInfo(s) == s \in registered
character_mapping_key(s) == "A"

\* session_id.startswith(f"tavern_{name}_"): the session ids of the model do
\* not carry the prefix.
StartsWithTavern(s, name) == FALSE

\* What a plugin-facing request leaves alone besides its own response.
plugRest == <<cLock, cEngine, chanRest, regVars, taskVars, convVars>>

\* A request that is answered without a side effect: the response and nothing
\* else.
Respond(c, endpoint, status) ==
  /\ cKind' = [cKind EXCEPT ![c] = "plug"]
  /\ cPc' = [cPc EXCEPT ![c] = "done"]
  /\ cResp' = [cResp EXCEPT ![c] = Http(endpoint, status)]
  /\ UNCHANGED <<loop, cSid, cLock, cEngine, chanVars, regVars, taskVars, elseVars>>

\* The sessions of the pending set that match the submitted character: by
\* mapping key against the character id or the character name, or by the
\* session id prefix.
MatchingSessions(id, name) ==
  {s \in pending_coordinated_reinits :
     /\ HasSessionInfo(s)
     /\ \/ character_mapping_key(s) = id
        \/ character_mapping_key(s) = name
        \/ StartsWithTavern(s, name)}

\* submit_character_data: gated; the submission is stored; every matching
\* pending session is taken out of the pending set and given an auto-reinit
\* task.  The tasks are closures over the handler's loop variable session_id,
\* which holds the session iterated last (the order of a set) when they run.
submit_character_data(c, id, name, last) ==
  /\ loop = Idle
  /\ cKind[c] = "none"
  /\ IF ~TAVERN_MODE_ACTIVE
       THEN /\ last = "s1"
            /\ Respond(c, "submit_character", 403)
       ELSE LET matching == MatchingSessions(id, name) IN
            /\ IF matching = {} THEN last = "s1" ELSE last \in matching
            /\ plugin_character_data' = [plugin_character_data EXCEPT ![id] = name]
            /\ plugOrder' = DictSet(plugOrder, id)
            /\ plugCard' = [plugCard EXCEPT ![id] = Card(c)]
            /\ pending_coordinated_reinits' = pending_coordinated_reinits \ matching
            /\ jPc' = [jPc EXCEPT ![c] = [s \in SessionIds |->
                                            IF s \in matching THEN "queued_auto" ELSE "none"]]
            /\ cSid' = [cSid EXCEPT ![c] = IF matching = {} THEN @ ELSE last]
            /\ cName' = [cName EXCEPT ![c] = name]
            /\ cKind' = [cKind EXCEPT ![c] = "plug"]
            /\ cPc' = [cPc EXCEPT ![c] = "done"]
            /\ cResp' = [cResp EXCEPT ![c] = Http("submit_character", 200)]
            /\ UNCHANGED <<loop, jEngine, active_connections, frames, jCard>>
            /\ UNCHANGED <<cLock, cEngine, chanRest, regVars, initialization_tasks, resetVars,
                           convVars, notCard>>

\* get_available_characters: gated; a listing.
get_available_characters(c) ==
  /\ loop = Idle
  /\ cKind[c] = "none"
  /\ Respond(c, "available_characters", IF TAVERN_MODE_ACTIVE THEN 200 ELSE 403)

\* get_current_tavern_session: gated; a lookup among the session ids that
\* start with "tavern_".
get_current_tavern_session(c) ==
  /\ loop = Idle
  /\ cKind[c] = "none"
  /\ Respond(c, "current_session", IF TAVERN_MODE_ACTIVE THEN 200 ELSE 403)

\* The handler with the check of the socket left out.
request_coordinated_reinitialize_NoSocketCheck(c, s) ==
  /\ loop = Idle
  /\ cKind[c] = "none"
  /\ IF sessions[s] = None
       THEN Respond(c, "request_reinitialize", 404)
       ELSE /\ pending_coordinated_reinits' = pending_coordinated_reinits \cup {s}
            /\ send_message(s, "request_character_submission", c)
            /\ cKind' = [cKind EXCEPT ![c] = "plug"]
            /\ cPc' = [cPc EXCEPT ![c] = "done"]
            /\ cSid' = [cSid EXCEPT ![c] = s]
            /\ cResp' = [cResp EXCEPT ![c] = Http("request_reinitialize", 200)]
            /\ UNCHANGED <<loop, plugin_character_data, cName, jPc, jEngine, plugRest>>

\* request_coordinated_reinitialize: 404 without the session, 400 without a
\* bound socket; otherwise the session is marked pending and the plugin is
\* asked for the character.  The handler does not read TAVERN_MODE_ACTIVE.
request_coordinated_reinitialize(c, s) ==
  /\ loop = Idle
  /\ cKind[c] = "none"
  /\ IF sessions[s] = None
       THEN Respond(c, "request_reinitialize", 404)
       ELSE IF active_connections[s] = None
         THEN Respond(c, "request_reinitialize", 400)
         ELSE /\ pending_coordinated_reinits' = pending_coordinated_reinits \cup {s}
              /\ send_message(s, "request_character_submission", c)
              /\ cKind' = [cKind EXCEPT ![c] = "plug"]
              /\ cPc' = [cPc EXCEPT ![c] = "done"]
              /\ cSid' = [cSid EXCEPT ![c] = s]
              /\ cResp' = [cResp EXCEPT ![c] = Http("request_reinitialize", 200)]
              /\ UNCHANGED <<loop, plugin_character_data, cName, jPc, jEngine, plugRest>>

\* The submission reinitialize_session_from_plugin finds for a session: under
\* the mapping key as character id, or as the name of a stored character, or
\* by the name inside the session id.
SubmissionFound(s) ==
  \/ character_mapping_key(s) \in CharIds /\ plugin_character_data[character_mapping_key(s)] # ""
  \/ \E i \in CharIds : plugin_character_data[i] = character_mapping_key(s)
  \/ \E i \in CharIds : plugin_character_data[i] # "" /\ StartsWithTavern(s, plugin_character_data[i])

\* reinitialize_session_from_plugin: 404 without the session, its mapping or
\* a submission; otherwise the background task is queued.  The handler does
\* not read TAVERN_MODE_ACTIVE.
reinitialize_session_from_plugin(c, s) ==
  /\ loop = Idle
  /\ cKind[c] = "none"
  /\ IF sessions[s] = None \/ ~HasSessionInfo(s) \/ ~SubmissionFound(s)
       THEN Respond(c, "reinitialize_from_plugin", 404)
       ELSE /\ jPc' = [jPc EXCEPT ![c][s] = "queued_plugin"]
            /\ cKind' = [cKind EXCEPT ![c] = "plug"]
            /\ cPc' = [cPc EXCEPT ![c] = "done"]
            /\ cSid' = [cSid EXCEPT ![c] = s]
            /\ cResp' = [cResp EXCEPT ![c] = Http("reinitialize_from_plugin", 200)]
            /\ UNCHANGED <<loop, pending_coordinated_reinits, plugin_character_data, cName,
                           jEngine, active_connections, frames, plugRest>>

\* The background jobs: _trigger_auto_reinit (created by submit_character_data
\* for a matching session) and reinitialize_task (reinitialize_session_from_plugin).

\* The session the job works on: the auto-reinit closure reads the handler's
\* session_id when it runs, reinitialize_task its own parameter.
JobSession(c, s) == IF jPc[c][s] \in {"queued_auto", "boot_auto", "ret_auto"} THEN cSid[c] ELSE s

\* `for stored_char_id, char_data in plugin_character_data.items()` with its
\* `break`: the first key of the dict whose character_name is the name.
FirstByName(name) ==
  LET ks == {k \in DOMAIN plugOrder : plugin_character_data[plugOrder[k]] = name}
  IN plugOrder[CHOOSE k \in ks : \A j \in ks : k <= j]

\* The job starts: the engine is taken from sessions, the stored character is
\* looked up by name (auto-reinit), the graph is cleared and the bootstrap goes
\* to the thread pool.  A failure of the auto-reinit is reported to the plugin;
\* reinitialize_task just ends.
JobStart(c, s) ==
  /\ loop = Idle
  /\ jPc[c][s] \in {"queued_auto", "queued_plugin"}
  /\ LET t == JobSession(c, s)
         auto == jPc[c][s] = "queued_auto"
         found == \E i \in CharIds : plugin_character_data[i] = cName[c]
     IN IF sessions[t] = None \/ (auto /\ ~found)
          THEN /\ jPc' = [jPc EXCEPT ![c][s] = "failed"]
               /\ IF auto
                    THEN send_message(t, "auto_reinitialization_failed", c)
                    ELSE UNCHANGED <<active_connections, frames>>
               /\ UNCHANGED <<graph, jEngine, jCard>>
          ELSE /\ graph' = [graph EXCEPT ![sessions[t]] = EmptyGraph]
               /\ jEngine' = [jEngine EXCEPT ![c][s] = sessions[t]]
               /\ jCard' = [jCard EXCEPT ![c][s] =
                               IF auto THEN plugCard[FirstByName(cName[c])] ELSE @]
               /\ jPc' = [jPc EXCEPT ![c][s] = IF auto THEN "boot_auto" ELSE "boot_plugin"]
               /\ UNCHANGED <<active_connections, frames>>
  /\ UNCHANGED <<loop, sessions, session_creation_locks, lockHeld, constructed, disk, registered,
                 sliding_window_managers, conflict_resolvers>>
  /\ UNCHANGED <<pending_coordinated_reinits, plugin_character_data, cName, plugOrder, plugCard>>
  /\ UNCHANGED <<chanRest, callVars, initialization_tasks, resetVars, notCard, convVars>>

\* initialize_from_tavern_data of the job, on a worker thread.
JobBoot(c, s, d) ==
  /\ jPc[c][s] \in {"boot_auto", "boot_plugin"}
  /\ LET e == jEngine[c][s] IN
       /\ graph' = [graph EXCEPT ![e] = Upsert(@, d)]
       /\ disk' = IF d = EmptyGraph THEN disk
                  ELSE [disk EXCEPT ![constructed[e]] = Upsert(graph[e], d)]
  /\ jPc' = [jPc EXCEPT ![c][s] = IF @ = "boot_auto" THEN "ret_auto" ELSE "done"]
  /\ UNCHANGED <<loop, sessions, session_creation_locks, lockHeld, constructed, registered,
                 sliding_window_managers, conflict_resolvers>>
  /\ UNCHANGED <<pending_coordinated_reinits, plugin_character_data, cName, jEngine>>
  /\ UNCHANGED <<chanVars, callVars, taskVars, convVars>>

\* The auto-reinit reports its completion to the plugin.
JobNotify(c, s) ==
  /\ loop = Idle
  /\ jPc[c][s] = "ret_auto"
  /\ send_message(JobSession(c, s), "auto_reinitialization_complete", c)
  /\ jPc' = [jPc EXCEPT ![c][s] = "done"]
  /\ UNCHANGED <<loop, pending_coordinated_reinits, plugin_character_data, cName, jEngine>>
  /\ UNCHANGED <<chanRest, regVars, callVars, taskVars, convVars>>

\* ----------------------------------- /system/full_reset, /system/quick_reset

Resets == 1..NumResets

\* The code of websocket.close() without an argument.
CODE_NORMAL == 1000

\* manager.active_connections[session_id].close() of the resets: a socket that
\* is still bound under the key is closed; a key that is gone raises KeyError,
\* which the bare `except` swallows.
ResetCloseKey(s) ==
  LET w == active_connections[s] IN
    IF w = None
      THEN UNCHANGED <<closeCalls, wsState>>
      ELSE /\ closeCalls' = [closeCalls EXCEPT ![w] = @ \cup {CODE_NORMAL}]
           /\ wsState' = [wsState EXCEPT ![w] = "closed"]

\* What both resets do up to their first await: sessions, the window managers
\* (and with them their windows), the conflict resolvers and the plugin
\* character data are cleared; full_system_reset also clears
\* initialization_tasks.  Neither touches session_creation_locks nor
\* pending_coordinated_reinits.  Then the keys of active_connections are
\* listed and close() is awaited on the socket of the first one; without a
\* bound socket the handler runs to its end: active_connections.clear() and,
\* in full_system_reset, storage_manager.__init__(), which reads the registry
\* of the sessions back from the disk.
ResetStart(r, kind, first) ==
  /\ loop = Idle
  /\ rPc[r] = "new"
  /\ rKind' = [rKind EXCEPT ![r] = kind]
  /\ sessions' = [s \in SessionIds |-> None]
  /\ sliding_window_managers' = [s \in SessionIds |-> None]
  /\ sliding_window' = [s \in SessionIds |-> <<>>]
  /\ turn_sequence' = [s \in SessionIds |-> 0]
  /\ inFlight' = [s \in SessionIds |-> {}]
  /\ conflict_resolvers' = {}
  /\ initialization_tasks' =
       IF kind = "full" THEN [c \in Callers |-> NoTask] ELSE initialization_tasks
  /\ plugin_character_data' = [i \in CharIds |-> ""]
  /\ plugOrder' = <<>>
  /\ plugCard' = [i \in CharIds |-> NoCard]
  /\ LET keys == {s \in SessionIds : active_connections[s] # None} IN
       /\ rBound' = [rBound EXCEPT ![r] = {active_connections[s] : s \in keys}]
       /\ IF keys = {}
            THEN /\ first = "s1"
                 /\ rPc' = [rPc EXCEPT ![r] = "done"]
                 /\ rKeys' = rKeys
                 /\ UNCHANGED <<closeCalls, wsState>>
            ELSE /\ first \in keys
                 /\ ResetCloseKey(first)
                 /\ rPc' = [rPc EXCEPT ![r] = "closing"]
                 /\ rKeys' = [rKeys EXCEPT ![r] = keys \ {first}]
  /\ UNCHANGED <<session_creation_locks, lockHeld, constructed, graph, disk, registered>>
  /\ UNCHANGED <<TAVERN_MODE_ACTIVE, active_connections, wsPc, wsSid, wsOld, frames>>
  /\ UNCHANGED <<loop, kPc, kSid, kTarget, kHow, kResp, kHist>>
  /\ tavernOrder' = <<>>
  /\ UNCHANGED <<pending_coordinated_reinits, cName, jPc, jEngine>>
  /\ UNCHANGED <<callVars, delVars, bootVars, turnVars, reqVars>>
  /\ UNCHANGED <<histVars, lastEnhance, lastCurrent, lastMode, jCard, uiVars>>

full_system_reset(r, first) == ResetStart(r, "full", first)
quick_reset(r, first) == ResetStart(r, "quick", first)

\* The await of a close() returns: the next key's socket is closed, or, after
\* the last one, active_connections is cleared and the handler returns.
ResetNext(r, s) ==
  /\ loop = Idle
  /\ rPc[r] = "closing"
  /\ IF rKeys[r] = {}
       THEN /\ s = "s1"
            /\ active_connections' = [k \in SessionIds |-> None]
            /\ rPc' = [rPc EXCEPT ![r] = "done"]
            /\ UNCHANGED <<rKeys, closeCalls, wsState>>
       ELSE /\ s \in rKeys[r]
            /\ ResetCloseKey(s)
            /\ rKeys' = [rKeys EXCEPT ![r] = @ \ {s}]
            /\ UNCHANGED <<rPc, active_connections>>
  /\ UNCHANGED <<loop, rKind, rBound, initialization_tasks>>
  /\ UNCHANGED <<TAVERN_MODE_ACTIVE, wsPc, wsSid, wsOld, frames>>
  /\ UNCHANGED <<regVars, callVars, convVars, plugVars, engineVars>>

\* ------------------------------------- GameEngine._process_deletion_events
\* The knowledge graph of one engine's memory, as far as deletions go: a node
\* is absent, live or soft-deleted (is_deleted), an edge is the triple
\* <<source, target, relationship>>.  The memory module is not part of the
\* source: its three operations follow section 4.1 of the specification.
MaxEntries == 3

NodeIds == {"hero", "npc_a", "amulet", "world", "ghost"}
Relationships == {"owns", "knows", "located_in"}
DeletionTypes == {"death", "lost", "default", "other"}

\* Edges a session's graph may hold when a delta arrives ("ghost" is in no graph).
CandidateEdges ==
  { <<"hero", "amulet", "owns">>, <<"npc_a", "amulet", "owns">>,
    <<"hero", "npc_a", "knows">>, <<"hero", "amulet", "knows">> }

\* memory.mark_node_as_deleted: the node stays and carries is_deleted; the
\* operation has no failure of its own, so an absent node stays absent.
mark_node_as_deleted(nodes, id) ==
  IF nodes[id] = "absent" THEN nodes ELSE [nodes EXCEPT ![id] = "deleted"]

\* memory.delete_node: the node and its incident edges go; the result is
\* whether the node existed.
delete_node(nodes, id) == [nodes EXCEPT ![id] = "absent"]
delete_node_edges(edges, id) == {e \in edges : e[1] # id /\ e[2] # id}

\* The edges an entry matches: "*" matches anything in its field.
Matching(edges, source, target, relationship) ==
  {e \in edges : /\ source \in {"*", e[1]}
                 /\ target \in {"*", e[2]}
                 /\ relationship \in {"*", e[3]}}

\* memory.delete_edge(source, target, relationship): the precise delete.  The
\* specification also gives it a wildcard form; whether the store the engine
\* calls has it is not visible from the engine, so both stores are modelled.
\* The result is whether an edge was removed.
delete_edge(edges, source, target, relationship) ==
  IF storeWildcards
    THEN edges \ Matching(edges, source, target, relationship)
    ELSE edges \ {<<source, target, relationship>>}

\* One pass of the loop over nodes_to_delete.  "death" and every type but
\* "lost" call mark_node_as_deleted and count the entry without looking at a
\* result; "lost" calls delete_node and counts the entry when it returned true.
DeleteNodeEntry(id, type) ==
  /\ dPc = "nodes"
  /\ dSteps < MaxEntries
  /\ dEntry' = <<"node", id, type>>
  /\ dSteps' = dSteps + 1
  /\ IF type = "lost"
       THEN /\ kgNodes' = delete_node(kgNodes, id)
            /\ kgEdges' = delete_node_edges(kgEdges, id)
            /\ nodes_deleted' = IF kgNodes[id] # "absent" THEN nodes_deleted + 1 ELSE nodes_deleted
       ELSE /\ kgNodes' = mark_node_as_deleted(kgNodes, id)
            /\ kgEdges' = kgEdges
            /\ nodes_deleted' = nodes_deleted + 1
  /\ UNCHANGED <<storeWildcards, dPc, edges_deleted, dStats>>
  /\ UNCHANGED notGraph

\* One pass of the loop over edges_to_delete, which starts when the loop over
\* nodes_to_delete is through.  With "*" as source or as relationship the
\* engine lists the matching edges itself and deletes them one by one,
\* counting each; every other entry, one with "*" as target alone included, is
\* handed to delete_edge as it is and counts 1 when that returned true.
DeleteEdgeEntry(source, target, relationship) ==
  /\ dPc \in {"nodes", "edges"}
  /\ dSteps < MaxEntries
  /\ dPc' = "edges"
  /\ dEntry' = <<"edge", source, target, relationship>>
  /\ dSteps' = dSteps + 1
  /\ IF source = "*" \/ relationship = "*"
       THEN LET edges_to_remove == Matching(kgEdges, source, target, relationship) IN
              /\ kgEdges' = kgEdges \ edges_to_remove
              /\ edges_deleted' = edges_deleted + Cardinality(edges_to_remove)
       ELSE /\ kgEdges' = delete_edge(kgEdges, source, target, relationship)
            /\ edges_deleted' =
                 IF delete_edge(kgEdges, source, target, relationship) # kgEdges
                   THEN edges_deleted + 1 ELSE edges_deleted
  /\ UNCHANGED <<kgNodes, storeWildcards, nodes_deleted, dStats>>
  /\ UNCHANGED notGraph

\* The call returns its statistics.
DeletionReturn ==
  /\ dPc \in {"nodes", "edges"}
  /\ dPc' = "done"
  /\ dStats' = [nodes_deleted |-> nodes_deleted, edges_deleted |-> edges_deleted]
  /\ UNCHANGED <<kgNodes, kgEdges, storeWildcards, dEntry, dSteps, nodes_deleted, edges_deleted>>
  /\ UNCHANGED notGraph

\* ------------------------------------ GameEngine._apply_validated_updates
\* memory.add_or_update_node: an upsert that keeps what it is not given, the
\* is_deleted mark included.
add_or_update_node(nodes, id) ==
  IF nodes[id] = "absent" THEN [nodes EXCEPT ![id] = "live"] ELSE nodes

\* memory.add_edge with an endpoint that is not in the graph adds nothing
\* (MissingEndpoint, which the callers swallow, or a silent no-op).
add_edge_Unchecked(nodes, edges, source, target, relationship) ==
  edges \cup {<<source, target, relationship>>}

add_edge(nodes, edges, source, target, relationship) ==
  IF nodes[source] # "absent" /\ nodes[target] # "absent"
    THEN edges \cup {<<source, target, relationship>>}
    ELSE edges

\* Edges a bootstrap or a delta may add.
AddableEdges == CandidateEdges \cup {<<"hero", "world", "located_in">>}

\* _apply_validated_updates is called with a delta: the deletions go first.
ApplyStart ==
  /\ dPc = "idle"
  /\ dPc' = "nodes"
  /\ dSteps' = 0
  /\ nodes_deleted' = 0
  /\ edges_deleted' = 0
  /\ dEntry' = <<"none">>
  /\ dStats' = [nodes_deleted |-> 0, edges_deleted |-> 0]
  /\ UNCHANGED <<kgNodes, kgEdges, storeWildcards, notGraph>>

\* One pass of the loop over nodes_to_update: a node that is not in the graph
\* (hard-deleted by the same delta, say) is created.
UpdateNodeEntry(id) ==
  /\ dPc \in {"done", "updates"}
  /\ dSteps < MaxEntries
  /\ dPc' = "updates"
  /\ dEntry' = <<"update", id>>
  /\ dSteps' = dSteps + 1
  /\ kgNodes' = add_or_update_node(kgNodes, id)
  /\ UNCHANGED <<kgEdges, storeWildcards, nodes_deleted, edges_deleted, dStats, notGraph>>

\* One pass of the loop over edges_to_add.
AddEdgeEntry(source, target, relationship) ==
  /\ dPc \in {"done", "updates", "adds"}
  /\ dSteps < MaxEntries
  /\ dPc' = "adds"
  /\ dEntry' = <<"add", source, target, relationship>>
  /\ dSteps' = dSteps + 1
  /\ kgEdges' = add_edge(kgNodes, kgEdges, source, target, relationship)
  /\ UNCHANGED <<kgNodes, storeWildcards, nodes_deleted, edges_deleted, dStats, notGraph>>

\* The graph is saved and the counters are returned; the locals of the call
\* are gone.
ApplyReturn ==
  /\ dPc \in {"done", "updates", "adds"}
  /\ dPc' = "idle"
  /\ dEntry' = <<"none">>
  /\ dSteps' = 0
  /\ nodes_deleted' = 0
  /\ edges_deleted' = 0
  /\ dStats' = [nodes_deleted |-> 0, edges_deleted |-> 0]
  /\ UNCHANGED <<kgNodes, kgEdges, storeWildcards, notGraph>>

\* _apply_llm_analysis_results of a bootstrap: the main character and the
\* entities of the reply are upserted, then each relationship whose two
\* entities get_node finds is added.  The fallback is the main character alone.
ApplyAnalysis(ns, es) ==
  /\ dPc = "idle"
  /\ LET nodes == [n \in NodeIds |-> IF n \in ns THEN add_or_update_node(kgNodes, n)[n] ELSE kgNodes[n]]
     IN /\ kgNodes' = nodes
        /\ kgEdges' = kgEdges \cup
             {e \in es : nodes[e[1]] # "absent" /\ nodes[e[2]] # "absent"
                         /\ e \in add_edge(nodes, kgEdges, e[1], e[2], e[3])}
  /\ dEntry' = <<"none">>
  /\ UNCHANGED <<storeWildcards, dPc, dSteps, nodes_deleted, edges_deleted, dStats, notGraph>>

\* The graph part of POST /sessions/{id}/reinitialize: clear_all, then the
\* character node, the world node and the edge between them.
ReinitializeGraph ==
  /\ dPc = "idle"
  /\ LET cleared == [n \in NodeIds |-> "absent"]
         nodes == add_or_update_node(add_or_update_node(cleared, "hero"), "world")
     IN /\ kgNodes' = nodes
        /\ kgEdges' = add_edge(nodes, {}, "hero", "world", "located_in")
  /\ dEntry' = <<"none">>
  /\ UNCHANGED <<storeWildcards, dPc, dSteps, nodes_deleted, edges_deleted, dStats, notGraph>>

\* ------------------------------------ character-card bootstrap, entity ids
\* Names are strings over a small alphabet, an id is a string too: the
\* sequence of its parts.  A graph is the set of its entities.
MaxNameLen == 2

NameChars == {"S", "e", " "}
Names == UNION {[1..n -> NameChars] : n \in 1..MaxNameLen}
NoName == <<>>
EntityTypes == {"character", "location", "item", "event", "concept", "organization", "skill", "unknown"}

\* str.lower() and str.replace(" ", "_"), character by character.
lower(name) == [i \in DOMAIN name |-> IF name[i] = "S" THEN "s" ELSE name[i]]
replace(name) == [i \in DOMAIN name |-> IF name[i] = " " THEN "_" ELSE name[i]]

\* str.strip()
RECURSIVE strip(_)
strip(name) ==
  IF name = <<>> THEN name
  ELSE IF Head(name) = " " THEN strip(Tail(name))
  ELSE IF name[Len(name)] = " " THEN strip(SubSeq(name, 1, Len(name) - 1))
  ELSE name

\* GameEngine._generate_entity_id
generate_entity_id(name, type) == <<type, "_">> \o replace(lower(strip(name)))

Entity(id, type, name) == [id |-> id, type |-> type, name |-> name]

\* memory.add_or_update_node on the set of entities: an upsert by id.
Upserted(entities, e) == {x \in entities : x.id # e.id} \cup {e}

\* The body of a completion: whether json.loads accepts it, and what the
\* object holds under main_character (its name) and entities.
\* "entities" and "relationships" are lists; a relationship names its source
\* and its target.
NotJson == [valid |-> FALSE, main |-> NoName, entities |-> <<>>, relationships |-> <<>>]
ReplyItem == Entity(NoName, "item", <<"e">>)
ReplyCreature == Entity(NoName, "creature", <<"S", " ">>)
Bodies(card) ==
  {NotJson} \cup
  {[valid |-> TRUE, main |-> m, entities |-> es, relationships |-> <<>>] :
     m \in {NoName, card, <<"e">>},
     es \in {<<>>, <<ReplyItem>>, <<ReplyCreature>>, <<ReplyItem, ReplyCreature>>}}

\* Replies with lists of up to MaxReply entries, which may repeat an entity,
\* list the main character among the entities and repeat a relationship.
MaxReply == 2
Lists(S) == UNION {[1..n -> S] : n \in 0..MaxReply}
BodiesWithLists(card) ==
  {[valid |-> TRUE, main |-> m, entities |-> es, relationships |-> rs] :
     m \in {NoName, card},
     es \in Lists({ReplyItem, Entity(NoName, "character", card)}),
     rs \in Lists({<<card, <<"e">>, "owns">>})}

\* LLMClient.chat: the content of the completion; every exception of the call
\* (timeout, transport) is caught and the apology sentence is returned in its
\* place.  What is returned is a str in each case.
LlmOutcomes == {"ok", "timeout", "transport"}
Apology == NotJson
chat(outcome, body) ==
  [kind |-> "text", class |-> "none", body |-> IF outcome = "ok" THEN body ELSE Apology]

\* _fallback_simple_initialization: the main character alone.
fallback_simple_initialization(card) ==
  {Entity(generate_entity_id(card, "character"), "character", card)}

\* _apply_llm_analysis_results on an empty graph: the main character when the
\* object has one (under the name the object gives it), then the entities
\* under the type the object gives them.
RECURSIVE UpsertAll(_, _)
UpsertAll(entities, todo) ==
  IF todo = <<>> THEN entities
  ELSE LET e == Head(todo) IN
         UpsertAll(Upserted(entities, Entity(generate_entity_id(e.name, e.type), e.type, e.name)),
                   Tail(todo))

apply_llm_analysis_results(parsed) ==
  UpsertAll(IF parsed.main # NoName
              THEN {Entity(generate_entity_id(parsed.main, "character"), "character", parsed.main)}
              ELSE {},
            parsed.entities)

\* entity_name_to_id: the main character first, then the entities in the
\* order of the list, a later entry of a name replacing the earlier one;
\* NoName for a name that has no entry.
entity_name_to_id(parsed, name) ==
  LET ks == {k \in DOMAIN parsed.entities : parsed.entities[k].name = name} IN
    IF ks # {}
      THEN LET e == parsed.entities[CHOOSE k \in ks : \A j \in ks : j <= k]
           IN generate_entity_id(e.name, e.type)
    ELSE IF parsed.main # NoName /\ parsed.main = name
      THEN generate_entity_id(parsed.main, "character")
    ELSE NoName

\* The relationships whose two names have an id and whose two nodes get_node
\* finds: the indices of the list for which memory.add_edge is called.
AddedRelationships(parsed) ==
  LET nodes == {e.id : e \in apply_llm_analysis_results(parsed)} IN
    {k \in DOMAIN parsed.relationships :
       LET r == parsed.relationships[k] IN
         /\ entity_name_to_id(parsed, r[1]) \in nodes
         /\ entity_name_to_id(parsed, r[2]) \in nodes}

\* The edges of the graph after them.
relationship_edges(parsed) ==
  {<<entity_name_to_id(parsed, parsed.relationships[k][1]),
     entity_name_to_id(parsed, parsed.relationships[k][2]),
     parsed.relationships[k][3]>> : k \in AddedRelationships(parsed)}

\* nodes_added += 1 after every add_or_update_node, edges_added += 1 after
\* every add_edge.
analysis_counts(parsed) ==
  [nodes_added |-> (IF parsed.main # NoName THEN 1 ELSE 0) + Len(parsed.entities),
   edges_added |-> Cardinality(AddedRelationships(parsed))]
fallback_counts == [nodes_added |-> 1, edges_added |-> 0]

\* initialize_from_tavern_data: the fallback when the LLM is not available or
\* _perform_llm_analysis returns None (json.loads failed); the analysis result
\* otherwise, whatever it added.
BootMethod(available, reply) ==
  IF available /\ reply.body.valid THEN "llm_analysis" ELSE "simple_fallback"

NoReply == [outcome |-> "none", sent |-> NotJson, result |-> chat("ok", NotJson)]

initialize_from_tavern_data(card, available, outcome, body) ==
  /\ kgEntities = {}
  /\ bMethod = "none"
  /\ LET reply == chat(outcome, body) IN
       /\ bReply' = IF available THEN [outcome |-> outcome, sent |-> body, result |-> reply]
                    ELSE NoReply
       /\ bMethod' = BootMethod(available, reply)
       /\ kgEntities' =
            IF BootMethod(available, reply) = "llm_analysis"
              THEN apply_llm_analysis_results(reply.body)
              ELSE fallback_simple_initialization(card)
       /\ kgRelations' =
            IF BootMethod(available, reply) = "llm_analysis"
              THEN relationship_edges(reply.body)
              ELSE {}
       /\ bStats' =
            IF BootMethod(available, reply) = "llm_analysis"
              THEN analysis_counts(reply.body)
              ELSE fallback_counts
  /\ bCard' = card
  /\ UNCHANGED notBoot

\* POST /sessions/{id}/reinitialize: clear_all, then a node whose id is the
\* character name as it is and the world node.
WorldName == <<"dialogue world">>
reinitialize_session(card) ==
  /\ bMethod # "none"
  /\ kgEntities' = {Entity(card, "character", card), Entity(WorldName, "location", WorldName)}
  /\ kgRelations' = {<<card, WorldName, "located_in">>}
  /\ bMethod' = "reinitialize"
  /\ bCard' = card
  /\ UNCHANGED <<bReply, bStats, notBoot>>

\* The auto-reinit job: the graph is cleared for a new bootstrap.
ClearForBootstrap ==
  /\ bMethod # "none"
  /\ kgEntities' = {}
  /\ kgRelations' = {}
  /\ bMethod' = "none"
  /\ UNCHANGED <<bCard, bReply, bStats, notBoot>>

\* A turn's validated delta upserts an entity; the validation layer has
\* normalised its id (specification 4.6).
UpdateEntity(name, type) ==
  /\ bMethod # "none"
  /\ kgEntities' = Upserted(kgEntities, Entity(<<type, "_">> \o replace(lower(name)), type, name))
  /\ UNCHANGED <<bCard, bReply, bMethod, kgRelations, bStats, notBoot>>

\* ------------------------------------------------------- TavernModeManager
MaxEnter == 2

NoSaved == [timestamp |-> 0, graph_nodes |-> 0, graph_edges |-> 0]
NoBackup == [saved |-> FALSE, entities |-> {}, relations |-> {}]
NoEnter == [success |-> FALSE, error |-> "none"]

\* What the collaborators of one enter_tavern_mode do: save_graph of the
\* backup, test_connection, get_current_character and
\* initialize_knowledge_graph_from_character (which works on the API
\* server's session, not on this engine's graph).
EnterCases ==
  [save : {"ok", "raises"}, connection : {"connected", "failed"},
   character : BOOLEAN, init : BOOLEAN]

EnterError(case) ==
  IF case.connection # "connected" THEN "connection"
  ELSE IF ~case.character THEN "character"
  ELSE IF ~case.init THEN "initialization"
  ELSE "none"

\* save_current_session: the sizes are noted, the graph is written to the
\* backup file; an exception of the save is logged and swallowed.
save_current_session(case) ==
  /\ saved_session_data' = [timestamp |-> saved_session_data.timestamp + 1,
                            graph_nodes |-> Cardinality(kgEntities),
                            graph_edges |-> Cardinality(kgRelations)]
  /\ backup_before_tavern' =
       IF case.save = "ok"
         THEN [saved |-> TRUE, entities |-> kgEntities, relations |-> kgRelations]
         ELSE backup_before_tavern

\* enter_tavern_mode: the session is saved, the graph is cleared, the
\* connector is made; then the connection test, the character and the
\* initialisation, each of which ends the call with success = False when it
\* fails; the flag is set after all three.
enter_tavern_mode(case) ==
  /\ saved_session_data.timestamp < MaxEnter
  /\ save_current_session(case)
  /\ kgEntities' = {}
  /\ kgRelations' = {}
  /\ bMethod' = "none"
  /\ connector' = "set"
  /\ is_tavern_mode' = IF EnterError(case) = "none" THEN TRUE ELSE is_tavern_mode
  /\ lastEnter' = [success |-> EnterError(case) = "none", error |-> EnterError(case)]
  /\ UNCHANGED <<bCard, bReply, bStats, svcVars, notUi>>

\* exit_tavern_mode: the connector is dropped and the flag reset; the saved
\* session is not restored.
exit_tavern_mode ==
  /\ connector' = "none"
  /\ is_tavern_mode' = FALSE
  /\ UNCHANGED <<saved_session_data, backup_before_tavern, lastEnter, bootVars, svcVars, notUi>>

InitNoBoot ==
  /\ kgEntities = {}
  /\ bCard = NoName
  /\ bReply = NoReply
  /\ bMethod = "none"
  /\ kgRelations = {}
  /\ bStats = [nodes_added |-> 0, edges_added |-> 0]

\* ------------------------------ GameEngine.extract_updates_from_response
MaxTurns == 4

\* What the collaborators of one call do: the agent (absent, a result, a
\* result with "error", an exception), the save after the agent's deltas went
\* into the graph, the local processor, the save after its deltas went in.
TurnCases ==
  [agent : {"none", "ok", "error", "raises"}, agent_save : {"ok", "raises"},
   local : {"ok", "raises"}, local_save : {"ok", "raises"}]

\* _extract_with_local_processor: extract, validate, apply, save; every
\* exception ends in the zero counters.  The deltas are in the graph as soon
\* as _apply_validated_updates has run its loops, whatever the save does.
LocalApplied(case) == IF case.local = "ok" THEN {"local"} ELSE {}
LocalResult(case) ==
  IF case.local = "ok" /\ case.local_save = "ok" THEN "local" ELSE "zeros"

\* _extract_with_agent: an "error" result and every exception, the one of the
\* save after the agent's deltas were applied included, go on to the local
\* processor.
AgentApplied(case) == IF case.agent = "ok" THEN {"agent"} ELSE {}
AgentFailed(case) == case.agent \in {"error", "raises"} \/ (case.agent = "ok" /\ case.agent_save = "raises")

ExtractUpdates(case) ==
  /\ xTurns < MaxTurns
  /\ xTurns' = xTurns + 1
  /\ xCase' = case
  /\ IF case.agent = "none"
       THEN /\ xApplied' = LocalApplied(case)
            /\ xResult' = LocalResult(case)
       ELSE IF AgentFailed(case)
         THEN /\ xApplied' = AgentApplied(case) \cup LocalApplied(case)
              /\ xResult' = LocalResult(case)
         ELSE /\ xApplied' = AgentApplied(case)
              /\ xResult' = "agent"

extract_updates_from_response(case) ==
  /\ ExtractUpdates(case)
  /\ UNCHANGED <<svcVars, delVars, bootVars, reqVars, apiVars>>

NoCase == [agent |-> "none", agent_save |-> "ok", local |-> "ok", local_save |-> "ok"]

InitNoTurn ==
  /\ xTurns = 0
  /\ xCase = NoCase
  /\ xApplied = {}
  /\ xResult = "none"

\* ------------------------------------- websocket_endpoint: request frames
MaxRequests == 2

WsActions == {"health", "enhance_prompt", "no_such_action", "system.full_reset"}
NoMsg == [action |-> "none", request_id |-> 0]

notReq == <<regVars, callVars, initialization_tasks, resetVars, convVars, plugVars,
            delVars, bootVars, turnVars, apiVars>>

\* receive_json returns a request frame (a JSON object): _handle_ws_request
\* is entered and awaits the endpoint of the action.
WsReceive(w, action) ==
  /\ loop = Idle
  /\ wsPc[w] = "receive"
  /\ wsState[w] = "open"
  /\ wsMsg[w].request_id < MaxRequests
  /\ wsMsg' = [wsMsg EXCEPT ![w] = [action |-> action, request_id |-> @.request_id + 1]]
  /\ wsPc' = [wsPc EXCEPT ![w] = "handling"]
  /\ UNCHANGED <<loop, TAVERN_MODE_ACTIVE, active_connections, wsSid, wsOld, wsState, closeCalls, frames>>
  /\ UNCHANGED notReq

\* action "system.full_reset": _handle_ws_request awaits full_system_reset().
WsFullReset(w, r, first) ==
  /\ wsPc[w] = "handling"
  /\ wsMsg[w].action = "system.full_reset"
  /\ full_system_reset(r, first)

\* What _handle_ws_request returns under "ok": the endpoints' HTTPException
\* (404 of enhance_prompt for a session that does not exist) and the unknown
\* action are ok=false; health_check answers 403 behind the gate, the other
\* endpoints do not read it.
WsOk(w) ==
  CASE wsMsg[w].action = "enhance_prompt" -> sessions[wsSid[w]] # None
    [] wsMsg[w].action = "health" -> TAVERN_MODE_ACTIVE
    [] wsMsg[w].action = "no_such_action" -> FALSE
    [] OTHER -> TRUE

\* The handler has returned and the response frame is handed to send_json of
\* the socket of the request; on a transport that is closed the send raises
\* and the endpoint ends with manager.disconnect.
WsRespond(w) ==
  /\ loop = Idle
  /\ wsPc[w] = "handling"
  /\ wsMsg[w].action = "system.full_reset" => \E r \in Resets : rPc[r] = "done"
  /\ frames' = PushFrame(frames, w, "response", <<wsMsg[w].action, wsMsg[w].request_id, WsOk(w)>>)
  /\ IF CanSend(w)
       THEN /\ wsPc' = [wsPc EXCEPT ![w] = "receive"]
            /\ UNCHANGED active_connections
       ELSE /\ active_connections' = disconnect(active_connections, wsSid[w], w)
            /\ wsPc' = [wsPc EXCEPT ![w] =
                 IF active_connections[wsSid[w]] = w THEN "done_unbound" ELSE "done_kept"]
  /\ UNCHANGED <<loop, TAVERN_MODE_ACTIVE, wsSid, wsOld, wsState, closeCalls, wsMsg>>
  /\ UNCHANGED notReq

InitNoRequests == wsMsg = [w \in Sockets |-> NoMsg]

\* ------------------------------------------ update_memory, reset_session
NoReset == [session_id |-> "none", keep_character_data |-> TRUE, status |-> "none", cleared |-> 0]

\* POST /update_memory for a session that exists: the engine extracts and
\* applies the updates of the turn, then memory.add_conversation appends the
\* turn to the conversation log.
update_memory(s, case) ==
  /\ sessions[s] # None
  /\ ExtractUpdates(case)
  /\ conversation_history' = [conversation_history EXCEPT ![s] = @ + 1]
  /\ UNCHANGED <<lastReset, lastEnhance, tavVars, lastMode, cardVars, uiVars>>
  /\ UNCHANGED <<svcVars, delVars, bootVars, reqVars>>

reset_session_Delete(s, keep) ==
  /\ loop = Idle
  /\ sessions[s] # None
  /\ lastReset' = [session_id |-> s, keep_character_data |-> keep, status |-> "200",
                   cleared |-> conversation_history[s]]
  /\ conversation_history' = [conversation_history EXCEPT ![s] = 0]
  /\ sessions' = [sessions EXCEPT ![s] = None]
  /\ UNCHANGED <<session_creation_locks, lockHeld, constructed, graph, disk, registered,
                 sliding_window_managers, conflict_resolvers>>
  /\ UNCHANGED <<loop, chanVars, callVars, initialization_tasks, resetVars, convVars, plugVars>>
  /\ UNCHANGED <<delVars, bootVars, turnVars, reqVars, lastEnhance, tavVars, lastMode,
                 cardVars, uiVars>>

\* POST /sessions/{id}/reset: 404 without the session; with
\* keep_character_data the conversation log of the engine is cleared, without
\* it the session is deleted from the registry.
reset_session(s, keep) ==
  /\ loop = Idle
  /\ IF sessions[s] = None
       THEN /\ lastReset' = [session_id |-> s, keep_character_data |-> keep,
                             status |-> "404", cleared |-> 0]
            /\ UNCHANGED <<sessions, conversation_history>>
       ELSE /\ lastReset' = [session_id |-> s, keep_character_data |-> keep, status |-> "200",
                             cleared |-> IF keep THEN conversation_history[s] ELSE 0]
            /\ IF keep
                 THEN /\ conversation_history' = [conversation_history EXCEPT ![s] = 0]
                      /\ UNCHANGED sessions
                 ELSE /\ sessions' = [sessions EXCEPT ![s] = None]
                      /\ UNCHANGED conversation_history
  /\ UNCHANGED <<session_creation_locks, lockHeld, constructed, graph, disk, registered,
                 sliding_window_managers, conflict_resolvers>>
  /\ UNCHANGED <<loop, chanVars, callVars, initialization_tasks, resetVars, convVars, plugVars>>
  /\ UNCHANGED <<delVars, bootVars, turnVars, reqVars, lastEnhance, tavVars, lastMode,
                 cardVars, uiVars>>

\* --------------------------------------------------------- enhance_prompt
MaxContext == 150
MaxLimit == 120

\* The characters of a retrieved context of n characters.
Context(n) == [i \in 1..n |-> "c"]
\* "\n[...context truncated...]"
TruncationMarker ==
  <<"\n", "[", ".", ".", ".", "c", "o", "n", "t", "e", "x", "t", " ",
    "t", "r", "u", "n", "c", "a", "t", "e", "d", ".", ".", ".", "]">>

\* text[:end] of Python: a negative end counts from the end of the text.
SliceTo(text, end) ==
  IF end >= 0
    THEN SubSeq(text, 1, IF end < Len(text) THEN end ELSE Len(text))
    ELSE SubSeq(text, 1, IF Len(text) + end > 0 THEN Len(text) + end ELSE 0)

Truncate(context, max_context_length) ==
  IF Len(context) > max_context_length
    THEN SliceTo(context, max_context_length - 100) \o TruncationMarker
    ELSE context

NoEnhance == [status |-> "none", max_context_length |-> 0, context |-> <<>>, enhanced_context |-> <<>>]

\* POST /enhance_prompt: 404 without the session; the context that
\* retrieve_context_for_prompt returned (n characters) is truncated when it is
\* longer than max_context_length.
enhance_prompt(s, max_context_length, n) ==
  /\ loop = Idle
  /\ lastEnhance' =
       IF sessions[s] = None
         THEN [NoEnhance EXCEPT !.status = "404", !.max_context_length = max_context_length]
         ELSE [status |-> "200", max_context_length |-> max_context_length,
               context |-> Context(n),
               enhanced_context |-> Truncate(Context(n), max_context_length)]
  /\ UNCHANGED <<svcVars, delVars, bootVars, turnVars, reqVars, histVars, tavVars, lastMode,
                 cardVars, uiVars>>

\* ------------------------------------------- get_current_tavern_session
\* Strings whose order matters are sequences of code points.
\* "Aria", "Mira", "Zed"
TavernCharacters == {<<65, 114, 105, 97>>, <<77, 105, 114, 97>>, <<90, 101, 100>>}

\* hashlib.md5(character_name.encode('utf-8')).hexdigest()[:8]:
\* "a1a013e2", "5b71afab", "039c8250"
md5_8(character_name) ==
  CASE character_name = <<65, 114, 105, 97>> -> <<97, 49, 97, 48, 49, 51, 101, 50>>
    [] character_name = <<77, 105, 114, 97>> -> <<53, 98, 55, 49, 97, 102, 97, 98>>
    [] OTHER -> <<48, 51, 57, 99, 56, 50, 53, 48>>

\* f"tavern_{character_name}_{character_hash}"
tavern_session_id(character_name) ==
  <<116, 97, 118, 101, 114, 110, 95>> \o character_name \o <<95>> \o md5_8(character_name)

\* a < b of Python strings: by code point, a proper prefix first.
RECURSIVE StrLess(_, _)
StrLess(a, b) ==
  IF b = <<>> THEN FALSE
  ELSE IF a = <<>> THEN TRUE
  ELSE IF Head(a) # Head(b) THEN Head(a) < Head(b)
  ELSE StrLess(Tail(a), Tail(b))

Range(seq) == {seq[i] : i \in DOMAIN seq}

\* max(tavern_sessions)
latest_session(tavern_sessions) ==
  CHOOSE m \in Range(tavern_sessions) :
    \A o \in Range(tavern_sessions) \ {m} : StrLess(o, m)

NoCurrent == [status |-> "none", has_session |-> FALSE, session_id |-> <<>>]

\* POST /initialize with the session id of a character: a session that does
\* not exist is created, and its key is the newest of `sessions`.
InitializeTavernSession(character_name) ==
  /\ loop = Idle
  /\ tavern_session_id(character_name) \notin Range(tavernOrder)
  /\ tavernOrder' = Append(tavernOrder, tavern_session_id(character_name))
  /\ UNCHANGED <<svcVars, delVars, bootVars, turnVars, reqVars, histVars, lastEnhance,
                 lastCurrent, lastMode, cardVars, uiVars>>

\* POST /sessions/{id}/reset without keep_character_data for a tavern session:
\* del sessions[session_id].
DeleteTavernSession(session_id) ==
  /\ loop = Idle
  /\ session_id \in Range(tavernOrder)
  /\ tavernOrder' = SelectSeq(tavernOrder, LAMBDA k : k # session_id)
  /\ UNCHANGED <<svcVars, delVars, bootVars, turnVars, reqVars, histVars, lastEnhance,
                 lastCurrent, lastMode, cardVars, uiVars>>

\* GET /tavern/current_session: 403 behind the gate, has_session = false without a tavern session,
\* otherwise the greatest of the tavern session ids.
tavern_current_session ==
  /\ loop = Idle
  /\ lastCurrent' =
       IF ~TAVERN_MODE_ACTIVE THEN [NoCurrent EXCEPT !.status = "403"]
       ELSE IF tavernOrder = <<>> THEN [NoCurrent EXCEPT !.status = "200"]
       ELSE [status |-> "200", has_session |-> TRUE, session_id |-> latest_session(tavernOrder)]
  /\ UNCHANGED <<svcVars, delVars, bootVars, turnVars, reqVars, histVars, lastEnhance,
                 tavernOrder, lastMode, cardVars, uiVars>>

InitApi ==
  /\ conversation_history = [s \in SessionIds |-> 0]
  /\ lastReset = NoReset
  /\ lastEnhance = NoEnhance
  /\ tavernOrder = <<>>
  /\ lastCurrent = NoCurrent
  /\ lastMode = NoMode
  /\ plugOrder = <<>>
  /\ plugCard = [i \in CharIds |-> NoCard]
  /\ jCard = [c \in Callers |-> [s \in SessionIds |-> NoCard]]
  /\ is_tavern_mode = FALSE
  /\ connector = "none"
  /\ saved_session_data = NoSaved
  /\ backup_before_tavern = NoBackup
  /\ lastEnter = NoEnter

\* No delta is being applied.
InitNoDelta ==
  /\ kgNodes = [n \in NodeIds |-> IF n = "ghost" THEN "absent" ELSE "live"]
  /\ kgEdges = {}
  /\ storeWildcards = FALSE
  /\ dPc = "idle"
  /\ dEntry = <<"none">>
  /\ dSteps = 0
  /\ nodes_deleted = 0
  /\ edges_deleted = 0
  /\ dStats = [nodes_deleted |-> 0, edges_deleted |-> 0]

\* The engine-level variables at rest.
InitQuiet == InitNoDelta /\ InitNoBoot /\ InitNoTurn /\ InitNoRequests /\ InitApi

InitResets ==
  /\ rPc = [r \in Resets |-> "new"]
  /\ rKind = [r \in Resets |-> "none"]
  /\ rKeys = [r \in Resets |-> {}]
  /\ rBound = [r \in Resets |-> {}]

InitChan ==
  /\ loop = Idle
  /\ TAVERN_MODE_ACTIVE = FALSE
  /\ active_connections = [s \in SessionIds |-> None]
  /\ wsPc = [w \in Sockets |-> "new"]
  /\ wsSid = [w \in Sockets |-> "s1"]
  /\ wsOld = [w \in Sockets |-> None]
  /\ wsState = [w \in Sockets |-> "new"]
  /\ closeCalls = [w \in Sockets |-> {}]
  /\ frames = [w \in Sockets |-> <<>>]


\* The state after the module is imported.
InitReg ==
  /\ sessions = [s \in SessionIds |-> None]
  /\ session_creation_locks = [s \in SessionIds |-> None]
  /\ lockHeld = [l \in Locks |-> None]
  /\ constructed = [e \in Engines |-> ""]
  /\ graph = [e \in Engines |-> EmptyGraph]
  /\ registered = {}
  /\ sliding_window_managers = [s \in SessionIds |-> None]
  /\ conflict_resolvers = {}

InitCall ==
  /\ cKind = [c \in Callers |-> "none"]
  /\ cPc = [c \in Callers |-> "new"]
  /\ cSid = [c \in Callers |-> "s1"]
  /\ cLock = [c \in Callers |-> None]
  /\ cEngine = [c \in Callers |-> None]
  /\ cResp = [c \in Callers |-> NoResp]
  /\ initialization_tasks = [c \in Callers |-> NoTask]

InitConv ==
  /\ sliding_window = [s \in SessionIds |-> <<>>]
  /\ turn_sequence = [s \in SessionIds |-> 0]
  /\ inFlight = [s \in SessionIds |-> {}]
  /\ kPc = [k \in ConvReqs |-> "new"]
  /\ kSid = [k \in ConvReqs |-> "s1"]
  /\ kTarget = [k \in ConvReqs |-> 0]
  /\ kHow = [k \in ConvReqs |-> "none"]
  /\ kResp = [k \in ConvReqs |-> NoConvResp]
  /\ kHist = [k \in ConvReqs |-> <<"none", 0>>]

InitPlug ==
  /\ pending_coordinated_reinits = {}
  /\ plugin_character_data = [i \in CharIds |-> ""]
  /\ cName = [c \in Callers |-> ""]
  /\ jPc = [c \in Callers |-> [s \in SessionIds |-> "none"]]
  /\ jEngine = [c \in Callers |-> [s \in SessionIds |-> None]]

\* The registry after earlier /initialize requests created and bootstrapped
\* (simple fallback) the sessions of B.
RegWith(B) ==
  /\ sessions = [s \in SessionIds |-> IF s \in B THEN BornEngine(s) ELSE None]
  /\ session_creation_locks = [s \in SessionIds |-> IF s \in B THEN BornEngine(s) ELSE None]
  /\ lockHeld = [l \in Locks |-> None]
  /\ constructed = [e \in Engines |->
       IF \E s \in B : e = BornEngine(s) THEN CHOOSE s \in B : e = BornEngine(s) ELSE ""]
  /\ graph = [e \in Engines |->
       IF \E s \in B : e = BornEngine(s) THEN BootFallback ELSE EmptyGraph]
  /\ disk = [s \in SessionIds |-> IF s \in B THEN BootFallback ELSE EmptyGraph]
  /\ registered = B
  /\ sliding_window_managers = [s \in SessionIds |-> None]
  /\ conflict_resolvers = {}

\* The graph files start empty, or the file of "s1" is left from an earlier
\* run of the server.
NoFiles == [s \in SessionIds |-> EmptyGraph]
LeftoverFiles == [s \in SessionIds |-> IF s = "s1" THEN BootFallback ELSE EmptyGraph]

InitRest == InitChan /\ InitCall /\ InitConv /\ InitPlug /\ InitResets /\ InitQuiet
Init == InitRest /\ InitReg /\ disk = NoFiles
InitLeftover == InitRest /\ InitReg /\ disk \in {NoFiles, LeftoverFiles}
\* ... with tavern mode switched on.
InitGateOn ==
  /\ InitCall /\ InitConv /\ InitPlug /\ InitResets /\ InitQuiet
  /\ InitReg /\ disk = NoFiles
  /\ loop = Idle
  /\ TAVERN_MODE_ACTIVE = TRUE
  /\ active_connections = [s \in SessionIds |-> None]
  /\ wsPc = [w \in Sockets |-> "new"]
  /\ wsSid = [w \in Sockets |-> "s1"]
  /\ wsOld = [w \in Sockets |-> None]
  /\ wsState = [w \in Sockets |-> "new"]
  /\ closeCalls = [w \in Sockets |-> {}]
  /\ frames = [w \in Sockets |-> <<>>]
\* "s1" exists already.
InitBorn == InitRest /\ RegWith({"s1"})

NextChan ==
  \/ \E w \in Sockets, s \in SessionIds : WsEndpoint(w, s)
  \/ \E w \in Sockets : GateClose(w)
  \/ \E w \in Sockets : ConnectLookup(w)
  \/ \E w \in Sockets : ConnectStore(w)
  \/ \E w \in Sockets : SendEstablished(w)
  \/ \E w \in Sockets : ClientClose(w)
  \/ \E w \in Sockets : ReceiveFail(w)
  \/ \E b \in BOOLEAN : set_tavern_mode_state(Bool(b))

SpecChan == Init /\ [][NextChan]_vars

\* get_or_create_session_engine on the worker threads.
NextGc ==
  \/ \E c \in Callers : GcCheck(c)
  \/ \E c \in Callers : GcLockCheck(c)
  \/ \E c \in Callers : GcLockSet(c)
  \/ \E c \in Callers : GcLockGet(c)
  \/ \E c \in Callers : GcAcquire(c)
  \/ \E c \in Callers, ok \in BOOLEAN : GcRecheck(c, ok)
  \/ \E c \in Callers : GcPublish(c)
  \/ \E c \in Callers, d \in BootOutcomes : Bootstrap(c, d)

\* Concurrent POST /initialize requests (or socket `initialize` actions), all
\* for the session ids of InitSessions.
InitSessions == {"s1"}

NextSess ==
  \/ \E c \in Callers, s \in InitSessions, is_test, reg_ok \in BOOLEAN :
       initialize_session(c, s, is_test, reg_ok)
  \/ \E c \in Callers : InitializeAfterEngine(c)
  \/ \E c \in Callers, window \in BOOLEAN : InitializeFinish(c, window)
  \/ NextGc

SpecSess == InitLeftover /\ [][NextSess]_vars

\* Async initialisation tasks for the session ids of InitSessions while plugin
\* sockets of PushSockets come and go.
PushSockets == {1}

NextTask ==
  \/ \E c \in Tasks, s \in InitSessions : initialize_session_async(c, s)
  \/ \E c \in Tasks : AsyncStart(c)
  \/ \E c \in Tasks, is_test, reg_ok \in BOOLEAN : AsyncRegister(c, is_test, reg_ok)
  \/ \E c \in Tasks : AsyncAfterEngine(c)
  \/ \E c \in Tasks, window \in BOOLEAN : AsyncAfterBoot(c, window)
  \/ \E c \in Tasks : AsyncComplete(c)
  \/ \E c \in Tasks : AsyncPush(c)
  \/ NextGc
  \/ \E w \in PushSockets, s \in InitSessions : WsEndpoint(w, s)
  \/ \E w \in PushSockets : GateClose(w)
  \/ \E w \in PushSockets : ConnectLookup(w)
  \/ \E w \in PushSockets : ConnectStore(w)
  \/ \E w \in PushSockets : SendEstablished(w)
  \/ \E w \in PushSockets : ClientClose(w)
  \/ \E w \in PushSockets : ReceiveFail(w)
  \/ \E b \in BOOLEAN : set_tavern_mode_state(Bool(b))

SpecTask == Init /\ [][NextTask]_vars

\* "s1" exists, and "s2" may.
InitBornAny == InitRest /\ \E B \in {{"s1"}, {"s1", "s2"}} : RegWith(B)

\* The plugin-facing endpoints and the coordinated re-initialisation while the
\* gate is switched and the plugin socket comes and goes.
NextReinit ==
  \/ \E c \in Callers, i \in CharIds, n \in CharNames, last \in SessionIds :
       submit_character_data(c, i, n, last)
  \/ \E c \in Callers : get_available_characters(c)
  \/ \E c \in Callers : get_current_tavern_session(c)
  \/ \E c \in Callers, s \in SessionIds : request_coordinated_reinitialize(c, s)
  \/ \E c \in Callers, s \in SessionIds : reinitialize_session_from_plugin(c, s)
  \/ \E c \in Callers, s \in SessionIds : JobStart(c, s)
  \/ \E c \in Callers, s \in SessionIds, d \in BootOutcomes : JobBoot(c, s, d)
  \/ \E c \in Callers, s \in SessionIds : JobNotify(c, s)
  \/ \E w \in PushSockets, s \in SessionIds : WsEndpoint(w, s)
  \/ \E w \in PushSockets : GateClose(w)
  \/ \E w \in PushSockets : ConnectLookup(w)
  \/ \E w \in PushSockets : ConnectStore(w)
  \/ \E w \in PushSockets : SendEstablished(w)
  \/ \E w \in PushSockets : ClientClose(w)
  \/ \E w \in PushSockets : ReceiveFail(w)
  \/ \E b \in BOOLEAN : set_tavern_mode_state(Bool(b))

SpecReinit == InitBornAny /\ [][NextReinit]_vars

\* process_conversation requests (HTTP or socket) while the plugin socket comes
\* and goes; "s1" exists, "s2" does not.
NextConv ==
  \/ \E k \in ConvReqs, s \in SessionIds : process_conversation(k, s)
  \/ \E k \in ConvReqs, how \in {"agent", "local"} : ConvExtract(k, how)
  \/ \E k \in ConvReqs : ConvApply(k)
  \/ \E k \in ConvReqs : ConvNotify(k)
  \/ \E w \in PushSockets, s \in InitSessions : WsEndpoint(w, s)
  \/ \E w \in PushSockets : GateClose(w)
  \/ \E w \in PushSockets : ConnectLookup(w)
  \/ \E w \in PushSockets : ConnectStore(w)
  \/ \E w \in PushSockets : SendEstablished(w)
  \/ \E w \in PushSockets : ClientClose(w)
  \/ \E w \in PushSockets : ReceiveFail(w)
  \/ \E b \in BOOLEAN : set_tavern_mode_state(Bool(b))

SpecConv == InitBorn /\ [][NextConv]_vars

\* process_conversation and sync_conversation requests in any order, with no
\* plugin socket connected; "s1" exists, "s2" does not.
NextWindow ==
  \/ \E k \in ConvReqs, s \in SessionIds : process_conversation(k, s)
  \/ \E k \in ConvReqs, how \in {"agent", "local"} : ConvExtract(k, how)
  \/ \E k \in ConvReqs : ConvApply(k)
  \/ \E k \in ConvReqs : ConvNotify(k)
  \/ \E k \in ConvReqs, s \in SessionIds, op \in SyncOps, n \in ConvReqs :
       sync_conversation(k, s, op, n)

SpecWindow == InitBorn /\ [][NextWindow]_vars

\* The gate is on; the plugin socket of "s2" is connected and an earlier
\* request_reinitialize for "s2" was answered: "s2" is pending and its
\* request_character_submission frame was sent.
CoordSockets == {1, 2}

InitPending ==
  /\ loop = Idle
  /\ TAVERN_MODE_ACTIVE = TRUE
  /\ active_connections = [s \in SessionIds |-> IF s = "s2" THEN 2 ELSE None]
  /\ wsPc = [w \in Sockets |-> IF w = 2 THEN "receive" ELSE "new"]
  /\ wsSid = [w \in Sockets |-> IF w = 2 THEN "s2" ELSE "s1"]
  /\ wsOld = [w \in Sockets |-> None]
  /\ wsState = [w \in Sockets |-> IF w = 2 THEN "open" ELSE "new"]
  /\ closeCalls = [w \in Sockets |-> {}]
  /\ frames = [w \in Sockets |->
       IF w = 2 THEN <<<<"connection_established", 0>>, <<"request_character_submission", 0>>>>
       ELSE <<>>]
  /\ pending_coordinated_reinits = {"s2"}
  /\ plugin_character_data = [i \in CharIds |-> ""]
  /\ cName = [c \in Callers |-> ""]
  /\ jPc = [c \in Callers |-> [s \in SessionIds |-> "none"]]
  /\ jEngine = [c \in Callers |-> [s \in SessionIds |-> None]]
  /\ InitConv /\ InitResets /\ InitQuiet

\* ... and both sessions were created by earlier /initialize requests.
InitCoord == InitPending /\ InitCall /\ RegWith({"s1", "s2"})

\* The coordinated re-initialisation: requests, submissions and the auto-reinit
\* jobs while the plugin sockets of the two sessions come and go.
NextCoord ==
  \/ \E c \in Callers, i \in CharIds, n \in CharNames, last \in SessionIds :
       submit_character_data(c, i, n, last)
  \/ \E c \in Callers, s \in SessionIds : request_coordinated_reinitialize(c, s)
  \/ \E c \in Callers, s \in SessionIds : JobStart(c, s)
  \/ \E c \in Callers, s \in SessionIds, d \in BootOutcomes : JobBoot(c, s, d)
  \/ \E c \in Callers, s \in SessionIds : JobNotify(c, s)
  \/ \E w \in CoordSockets : WsEndpoint(w, "s1")
  \/ \E w \in CoordSockets : GateClose(w)
  \/ \E w \in CoordSockets : ConnectLookup(w)
  \/ \E w \in CoordSockets : ConnectStore(w)
  \/ \E w \in CoordSockets : SendEstablished(w)
  \/ \E w \in CoordSockets : ClientClose(w)
  \/ \E w \in CoordSockets : ReceiveFail(w)
  \/ \E b \in BOOLEAN : set_tavern_mode_state(Bool(b))

SpecCoord == InitCoord /\ [][NextCoord]_vars

\* ... "s2" was created by an earlier /initialize, and "s1" by POST
\* /initialize_async with a sliding window: task 1 has completed (LLM
\* bootstrap, registered with the storage manager).
InitAfterAsync ==
  /\ InitPending
  /\ sessions = [s \in SessionIds |-> IF s = "s1" THEN 1 ELSE BornEngine(s)]
  /\ session_creation_locks = sessions
  /\ lockHeld = [l \in Locks |-> None]
  /\ constructed = [e \in Engines |->
       IF e = 1 THEN "s1" ELSE IF e = BornEngine("s2") THEN "s2" ELSE ""]
  /\ graph = [e \in Engines |->
       IF e = 1 THEN BootLLM ELSE IF e = BornEngine("s2") THEN BootFallback ELSE EmptyGraph]
  /\ disk = [s \in SessionIds |-> IF s = "s1" THEN BootLLM ELSE BootFallback]
  /\ registered = {"s1", "s2"}
  /\ sliding_window_managers = [s \in SessionIds |-> IF s = "s1" THEN 1 ELSE None]
  /\ conflict_resolvers = {"s1"}
  /\ cKind = [c \in Callers |-> IF c = 1 THEN "async" ELSE "none"]
  /\ cPc = [c \in Callers |-> IF c = 1 THEN "bg_done" ELSE "new"]
  /\ cSid = [c \in Callers |-> "s1"]
  /\ cLock = [c \in Callers |-> IF c = 1 THEN 1 ELSE None]
  /\ cEngine = [c \in Callers |-> IF c = 1 THEN 1 ELSE None]
  /\ cResp = [c \in Callers |->
       IF c = 1 THEN [kind |-> "bootstrapped", stats |-> Stats(BootLLM)] ELSE NoResp]
  /\ initialization_tasks = [c \in Callers |->
       IF c = 1 THEN [NoTask EXCEPT !.status = COMPLETED, !.progress = 10,
                                    !.session_id = "s1", !.result = Stats(BootLLM)]
       ELSE NoTask]

\* The resets while the plugin connects, asks for a re-initialisation and
\* submits characters.
NextReset ==
  \/ \E r \in Resets, first \in SessionIds : full_system_reset(r, first)
  \/ \E r \in Resets, first \in SessionIds : quick_reset(r, first)
  \/ \E r \in Resets, s \in SessionIds : ResetNext(r, s)
  \/ NextCoord

SpecReset == InitAfterAsync /\ [][NextReset]_vars

\* _process_deletion_events is called with one delta on a graph of three
\* nodes and any of the candidate edges, both counters 0: the entries of
\* nodes_to_delete, then those of edges_to_delete, one by one.
InitDelete ==
  /\ InitChan /\ InitCall /\ InitConv /\ InitPlug /\ InitResets
  /\ InitReg /\ disk = NoFiles
  /\ InitNoBoot /\ InitNoTurn /\ InitNoRequests /\ InitApi
  /\ kgNodes = [n \in NodeIds |-> IF n = "ghost" THEN "absent" ELSE "live"]
  /\ kgEdges \in SUBSET CandidateEdges
  /\ storeWildcards \in BOOLEAN
  /\ dPc = "nodes"
  /\ dEntry = <<"none">>
  /\ dSteps = 0
  /\ nodes_deleted = 0
  /\ edges_deleted = 0
  /\ dStats = [nodes_deleted |-> 0, edges_deleted |-> 0]

NextDelete ==
  \/ \E id \in NodeIds, type \in DeletionTypes : DeleteNodeEntry(id, type)
  \/ \E source \in NodeIds \cup {"*"}, target \in NodeIds \cup {"*"},
        relationship \in Relationships \cup {"*"} :
       DeleteEdgeEntry(source, target, relationship)
  \/ DeletionReturn

SpecDelete == InitDelete /\ [][NextDelete]_vars

\* The graph of one session from its creation on: bootstraps,
\* reinitialisations and deltas in any order, a delta entry by entry.
InitGraph ==
  /\ InitChan /\ InitCall /\ InitConv /\ InitPlug /\ InitResets
  /\ InitReg /\ disk = NoFiles
  /\ InitNoBoot /\ InitNoTurn /\ InitNoRequests /\ InitApi
  /\ kgNodes = [n \in NodeIds |-> "absent"]
  /\ kgEdges = {}
  /\ storeWildcards \in BOOLEAN
  /\ dPc = "idle"
  /\ dEntry = <<"none">>
  /\ dSteps = 0
  /\ nodes_deleted = 0
  /\ edges_deleted = 0
  /\ dStats = [nodes_deleted |-> 0, edges_deleted |-> 0]

\* The entries of the deltas are about the amulet, the absent ghost and the
\* edges between the hero, the amulet and the world.
NextGraph ==
  \/ \E ns \in {{"hero"}, {"hero", "amulet"}}, es \in {{}, AddableEdges} :
       ApplyAnalysis(ns, es)
  \/ ReinitializeGraph
  \/ ApplyStart
  \/ \E id \in {"amulet", "ghost"}, type \in {"death", "lost"} : DeleteNodeEntry(id, type)
  \/ \E target \in {"amulet", "*"} : DeleteEdgeEntry("hero", target, "owns")
  \/ DeletionReturn
  \/ \E id \in {"amulet", "world"} : UpdateNodeEntry(id)
  \/ \E e \in {a \in AddableEdges : a[1] = "hero" /\ a[2] # "npc_a"} :
       AddEdgeEntry(e[1], e[2], e[3])
  \/ ApplyReturn

SpecGraph == InitGraph /\ [][NextGraph]_vars

\* One engine: card bootstraps with every behaviour of the LLM, explicit
\* reinitialisations, cleared graphs and entity updates of turns.
InitBoot ==
  /\ InitChan /\ InitCall /\ InitConv /\ InitPlug /\ InitResets
  /\ InitReg /\ disk = NoFiles
  /\ InitQuiet

NextBoot ==
  \/ \E card \in Names, available \in BOOLEAN, outcome \in LlmOutcomes :
       \E body \in Bodies(card) : initialize_from_tavern_data(card, available, outcome, body)
  \/ \E card \in Names : reinitialize_session(card)
  \/ ClearForBootstrap
  \/ \E name \in {<<"e">>, <<"S", "e">>}, type \in {"item", "unknown"} : UpdateEntity(name, type)

SpecBoot == InitBoot /\ [][NextBoot]_vars

\* Bootstraps of an empty graph from replies with lists, the graph cleared
\* between them.
CountCards == {<<"e">>, <<"S", "e">>}
NextCount ==
  \/ \E card \in CountCards, available \in BOOLEAN, outcome \in LlmOutcomes :
       \E body \in BodiesWithLists(card) :
         initialize_from_tavern_data(card, available, outcome, body)
  \/ ClearForBootstrap

SpecCount == InitBoot /\ [][NextCount]_vars

\* The engine of the desktop program: bootstraps without an LLM and turns
\* fill its graph, tavern mode is entered and left.
NextTavernMode ==
  \/ \E card \in CountCards : initialize_from_tavern_data(card, FALSE, "ok", NotJson)
  \/ \E type \in {"item", "unknown"} : UpdateEntity(<<"e">>, type)
  \/ \E case \in EnterCases : enter_tavern_mode(case)
  \/ exit_tavern_mode

SpecTavernMode == InitBoot /\ [][NextTavernMode]_vars

\* The turns of one engine, each with any behaviour of its collaborators.
NextTurn ==
  \E case \in TurnCases : extract_updates_from_response(case)

SpecTurn == InitBoot /\ [][NextTurn]_vars

\* The plugin sockets of "s1" and "s2" (one socket each, none closed by the
\* plugin) and their request frames; both sessions exist.
NextRequests ==
  \/ WsEndpoint(1, "s1")
  \/ \E w \in CoordSockets : ConnectLookup(w)
  \/ \E w \in CoordSockets : ConnectStore(w)
  \/ \E w \in CoordSockets : SendEstablished(w)
  \/ \E w \in CoordSockets, action \in WsActions : WsReceive(w, action)
  \/ \E w \in CoordSockets, r \in Resets, first \in SessionIds : WsFullReset(w, r, first)
  \/ \E r \in Resets, s \in SessionIds : ResetNext(r, s)
  \/ \E w \in CoordSockets : WsRespond(w)

SpecRequests == InitCoord /\ [][NextRequests]_vars

\* The turns of "s1" through POST /update_memory and the resets of both
\* session ids; "s1" exists, "s2" does not.
NextResetSession ==
  \/ \E s \in SessionIds, case \in TurnCases : update_memory(s, case)
  \/ \E s \in SessionIds, keep \in BOOLEAN : reset_session(s, keep)

SpecResetSession == InitBorn /\ [][NextResetSession]_vars

\* One POST /enhance_prompt with every limit up to MaxLimit and every length
\* of the retrieved context up to MaxContext; "s1" exists, "s2" does not.
NextEnhance ==
  /\ lastEnhance = NoEnhance
  /\ \E s \in SessionIds, max_context_length \in 0..MaxLimit, n \in 0..MaxContext :
       enhance_prompt(s, max_context_length, n)

SpecEnhance == InitBorn /\ [][NextEnhance]_vars

\* Tavern sessions are created and deleted in any order while the gate is
\* switched and the current session is asked for.
NextCurrent ==
  \/ \E character_name \in TavernCharacters : InitializeTavernSession(character_name)
  \/ \E character_name \in TavernCharacters :
       DeleteTavernSession(tavern_session_id(character_name))
  \/ tavern_current_session
  \/ \E b \in BOOLEAN : set_tavern_mode_state(Bool(b))

SpecCurrent == Init /\ [][NextCurrent]_vars

\* POST /system/tavern_mode with every payload while the plugin socket comes
\* and goes.
NextMode ==
  \/ \E active \in Payloads : set_tavern_mode_state(active)
  \/ \E w \in PushSockets, s \in InitSessions : WsEndpoint(w, s)
  \/ \E w \in PushSockets : GateClose(w)
  \/ \E w \in PushSockets : ConnectLookup(w)
  \/ \E w \in PushSockets : ConnectStore(w)
  \/ \E w \in PushSockets : SendEstablished(w)
  \/ \E w \in PushSockets : ClientClose(w)
  \/ \E w \in PushSockets : ReceiveFail(w)

SpecMode == Init /\ [][NextMode]_vars

\* Character submissions, reinitialisations from the stored submission and
\* their background jobs while process_conversation requests arrive; both
\* sessions exist, "s2" is pending and its plugin socket is bound.
SerialConv == {1, 2}

NextSerial ==
  \/ \E c \in Callers, i \in CharIds, n \in CharNames, last \in SessionIds :
       submit_character_data(c, i, n, last)
  \/ \E c \in Callers, s \in SessionIds : reinitialize_session_from_plugin(c, s)
  \/ \E c \in Callers, s \in SessionIds : JobStart(c, s)
  \/ \E c \in Callers, s \in SessionIds, d \in BootOutcomes : JobBoot(c, s, d)
  \/ \E c \in Callers, s \in SessionIds : JobNotify(c, s)
  \/ \E k \in SerialConv, s \in SessionIds : process_conversation(k, s)
  \/ \E k \in SerialConv, how \in {"agent", "local"} : ConvExtract(k, how)
  \/ \E k \in SerialConv : ConvApply(k)
  \/ \E k \in SerialConv : ConvNotify(k)

SpecSerial == InitCoord /\ [][NextSerial]_vars

\* The gate is switched while the plugin socket of "s2" is bound and sends
\* requests, a second socket connects and reinitialisations are requested.
NextGate ==
  \/ \E b \in BOOLEAN : set_tavern_mode_state(Bool(b))
  \/ WsEndpoint(1, "s1")
  \/ \E w \in CoordSockets : GateClose(w)
  \/ \E w \in CoordSockets : ConnectLookup(w)
  \/ \E w \in CoordSockets : ConnectStore(w)
  \/ \E w \in CoordSockets : SendEstablished(w)
  \/ \E w \in CoordSockets, action \in {"health", "enhance_prompt"} : WsReceive(w, action)
  \/ \E w \in CoordSockets : WsRespond(w)
  \/ \E c \in Callers, s \in SessionIds : request_coordinated_reinitialize(c, s)

SpecGate == InitCoord /\ [][NextGate]_vars

\* The life of the session id "s1": turns, resets with and without
\* keep_character_data, and POST /initialize for the same id again (its
\* creation lock and its graph file exist, so the engine is built from the
\* file and is not bootstrapped).
NextLife ==
  \/ \E k \in SerialConv, s \in InitSessions : process_conversation(k, s)
  \/ \E k \in SerialConv, how \in {"agent", "local"} : ConvExtract(k, how)
  \/ \E k \in SerialConv : ConvApply(k)
  \/ \E k \in SerialConv : ConvNotify(k)
  \/ \E s \in InitSessions, keep \in BOOLEAN : reset_session(s, keep)
  \/ \E c \in Callers, s \in InitSessions, is_test, reg_ok \in BOOLEAN :
       initialize_session(c, s, is_test, reg_ok)
  \/ \E c \in Callers : InitializeAfterEngine(c)
  \/ \E c \in Callers : GcCheck(c)
  \/ \E c \in Callers : GcLockCheck(c)
  \/ \E c \in Callers : GcLockGet(c)
  \/ \E c \in Callers : GcAcquire(c)
  \/ \E c \in Callers, ok \in BOOLEAN : GcRecheck(c, ok)
  \/ \E c \in Callers : GcPublish(c)

SpecLife == InitBorn /\ [][NextLife]_vars

\* POST /initialize_async requests and, once, a system reset while their
\* tasks run and the plugin socket of "s1" connects; no initialize request
\* arrives after the reset.
NextResetAsync ==
  \/ /\ \A r \in Resets : rPc[r] = "new"
     /\ \E c \in Tasks, s \in InitSessions : initialize_session_async(c, s)
  \/ \E c \in Tasks : AsyncStart(c)
  \/ \E c \in Tasks, is_test, reg_ok \in BOOLEAN : AsyncRegister(c, is_test, reg_ok)
  \/ \E c \in Tasks : AsyncAfterEngine(c)
  \/ \E c \in Tasks, window \in BOOLEAN : AsyncAfterBoot(c, window)
  \/ \E c \in Tasks : AsyncComplete(c)
  \/ \E c \in Tasks : AsyncPush(c)
  \/ NextGc
  \/ \E w \in PushSockets, s \in InitSessions : WsEndpoint(w, s)
  \/ \E w \in PushSockets : ConnectLookup(w)
  \/ \E w \in PushSockets : ConnectStore(w)
  \/ \E w \in PushSockets : SendEstablished(w)
  \/ \E r \in Resets, first \in SessionIds : full_system_reset(r, first)
  \/ \E r \in Resets, first \in SessionIds : quick_reset(r, first)
  \/ \E r \in Resets, s \in SessionIds : ResetNext(r, s)

SpecResetAsync == InitGateOn /\ [][NextResetAsync]_vars

\* ------------------------------------------------------------- claims C1-C3

\* C1: when connect(session_id, socket_B) finds a different socket_A bound to
\* the session id, close(code=1012) is called on socket_A while the table still
\* maps the id to socket_A (before socket_B is stored), and the store that
\* follows maps the id to socket_B.
C1_ReplacedBeforeStore ==
  [][\A w \in Sockets :
       /\ (wsPc[w] = "lookup" /\ wsPc'[w] = "store"
             /\ active_connections[wsSid[w]] \notin {None, w})
            => LET a == active_connections[wsSid[w]] IN
                 /\ wsOld'[w] = a
                 /\ CODE_REPLACED \in closeCalls'[a]
                 /\ wsState'[a] = "closed"
                 /\ active_connections'[wsSid[w]] = a
       /\ (wsPc[w] = "store" /\ wsPc'[w] = "established")
            => /\ active_connections'[wsSid[w]] = w
               /\ (wsOld[w] \notin {None, w} => CODE_REPLACED \in closeCalls[wsOld[w]])
    ]_vars

\* C1 witness: socket_B is connected and bound after it replaced socket_A,
\* which got the 1012 close.
C1_Witness ==
  \E w \in Sockets :
    /\ wsPc[w] = "receive"
    /\ wsOld[w] \notin {None, w}
    /\ active_connections[wsSid[w]] = w
    /\ CODE_REPLACED \in closeCalls[wsOld[w]]

\* C2: when the handler of a socket ends (disconnect, or a failed receive or
\* send), a binding that points to another socket is left as it is: only the
\* socket's own binding is removed.
C2_LateCloseKeepsReplacement ==
  [][\A w \in Sockets :
       (wsPc[w] \in {"established", "receive"} /\ wsPc'[w] \in {"done_unbound", "done_kept"})
         => \A s \in SessionIds :
              /\ active_connections[s] # w => active_connections'[s] = active_connections[s]
              /\ active_connections[s] = w => active_connections'[s] = None
    ]_vars

\* C2 witness: the superseded socket A has closed late (its handler ended
\* finding another socket bound) and its replacement B is still bound.
C2_Witness ==
  \E a, b \in Sockets :
    /\ a # b
    /\ wsPc[a] = "done_kept"
    /\ wsOld[b] = a
    /\ wsPc[b] = "receive"
    /\ active_connections[wsSid[a]] = b

\* C3: a socket that connects while TAVERN_MODE_ACTIVE is false is accepted
\* and its next step closes it with code 1008; it is never bound, no frame is
\* ever written to it, and its steps close or replace no other socket.
C3_GatedSocket ==
  /\ [](\A w \in Sockets :
          wsPc[w] \in {"gate_close", "gate_done"}
            => /\ frames[w] = <<>>
               /\ \A s \in SessionIds : active_connections[s] # w
               /\ wsPc[w] = "gate_done" => (closeCalls[w] = {CODE_POLICY} /\ wsState[w] = "closed"))
  /\ [][\A w \in Sockets :
          /\ (wsPc[w] = "new" /\ wsPc'[w] # "new" /\ ~TAVERN_MODE_ACTIVE)
               => /\ wsPc'[w] = "gate_close"
                  /\ wsState'[w] = "open"
                  /\ active_connections' = active_connections
                  /\ closeCalls' = closeCalls
          /\ (wsPc[w] = "gate_close" /\ wsPc'[w] # "gate_close")
               => /\ wsPc'[w] = "gate_done"
                  /\ active_connections' = active_connections
                  /\ frames' = frames
                  /\ \A o \in Sockets \ {w} : closeCalls'[o] = closeCalls[o] /\ wsState'[o] = wsState[o]
      ]_vars

\* C3 witness: a socket was refused by the gate while another socket, bound
\* before the switch, is still bound to the same session id.
C3_Witness ==
  \E w \in Sockets :
    /\ wsPc[w] = "gate_done"
    /\ active_connections[wsSid[w]] # None
    /\ wsState[active_connections[wsSid[w]]] = "open"

\* ------------------------------------------------------------- claims C5, C7

\* Callers to whom get_or_create_session_engine has returned an engine.
Returned(c) == cEngine[c] # None

\* C5: whatever the interleaving of concurrent get-or-create calls for one
\* absent session id, a single engine is constructed for that id and every
\* caller gets that engine, the one published in sessions.
C5_OneEnginePerSession ==
  \A s \in SessionIds :
    /\ Cardinality({e \in Callers : constructed[e] = s}) <= 1
    /\ \A c \in Callers :
         (Returned(c) /\ cSid[c] = s) => cEngine[c] = sessions[s]

\* C7: POST /initialize for a session that is in sessions with a graph that
\* has nodes is answered in the same step with the node and edge counts of that
\* graph, and the step changes nothing: no bootstrap is started and sessions,
\* the graphs, the graph files, the window managers, the conflict resolvers
\* and the storage registration stay as they were.
C7_ExistingSessionUntouched ==
  [][\A c \in Callers :
       (/\ cKind[c] = "none" /\ cKind'[c] = "init"
        /\ sessions[cSid'[c]] # None
        /\ graph[sessions[cSid'[c]]].nodes # {})
         => /\ cPc'[c] = "done"
            /\ cResp'[c].kind = "existing"
            /\ cResp'[c].message.nodes = Cardinality(graph[sessions[cSid'[c]]].nodes)
            /\ cResp'[c].message.edges = Cardinality(graph[sessions[cSid'[c]]].edges)
            /\ sessions' = sessions /\ graph' = graph /\ disk' = disk
            /\ constructed' = constructed
            /\ sliding_window_managers' = sliding_window_managers
            /\ conflict_resolvers' = conflict_resolvers
            /\ registered' = registered
    ]_vars

\* C7 witness: a request for a session another request created and
\* bootstrapped was answered from the existing graph without an engine lookup.
C7_Witness ==
  \E c \in Callers :
    /\ cKind[c] = "init" /\ cPc[c] = "done"
    /\ cEngine[c] = None
    /\ cResp[c].kind = "existing"
    /\ cResp[c].message.nodes > 0
    /\ sessions[cSid[c]] \in Callers \ {c}

\* ------------------------------------------------------------- claims C8, C9

\* C8: the status of a task record moves only pending -> running -> completed
\* or pending -> running -> failed and a terminal status stays; the progress
\* never decreases and moves 0 -> 0.1 -> 0.2 -> 0.6 -> 0.8 -> 1.0 one milestone
\* at a time; a completed record has progress 1.0, its session_id and its result,
\* a failed record has its error.
C8_TaskLifecycle ==
  /\ [](\A c \in Callers :
          LET r == initialization_tasks[c] IN
            /\ r.status \in {"absent", "pending", "running", "completed", "failed"}
            /\ r.status = "completed"
                 => (r.progress = 10 /\ r.session_id = cSid[c] /\ r.result.nodes >= 0)
            /\ r.status = "failed" => r.error # "None")
  /\ [][\A c \in Callers :
          LET r == initialization_tasks[c]
              q == initialization_tasks'[c] IN
            /\ q.status # r.status
                 => <<r.status, q.status>> \in
                      {<<"absent", "pending">>, <<"pending", "running">>,
                       <<"running", "completed">>, <<"running", "failed">>}
            /\ q.progress >= r.progress
            /\ q.progress # r.progress
                 => <<r.progress, q.progress>> \in
                      {<<0, 1>>, <<1, 2>>, <<2, 6>>, <<6, 8>>, <<8, 10>>}
     ]_vars

\* C8 witness: a completed task (all milestones behind it).
C8_Witness ==
  \E c \in Callers :
    /\ initialization_tasks[c].status = "completed"
    /\ initialization_tasks[c].progress = 10
    /\ cPc[c] = "bg_done"

\* The initialization_complete frames written for task c.
CompleteFrames(c) ==
  {<<w, i>> \in Sockets \X (1..(NumTasks + 1)) :
     i <= Len(frames[w]) /\ frames[w][i] = <<"initialization_complete", c>>}

\* C9: an initialization_complete frame of a task is written only in a step
\* that starts with the record of the task completed, on the socket bound to
\* the session of the task at that time; no such frame exists for a task whose
\* record is failed.
C9_CompleteAfterCompleted ==
  /\ [](\A c \in Callers :
          initialization_tasks[c].status = "failed" => CompleteFrames(c) = {})
  /\ [][\A c \in Callers, w \in Sockets :
          (/\ Len(frames'[w]) > Len(frames[w])
           /\ frames'[w][Len(frames'[w])] = <<"initialization_complete", c>>)
            => /\ initialization_tasks[c].status = "completed"
               /\ initialization_tasks'[c].status = "completed"
               /\ active_connections[cSid[c]] = w
     ]_vars

\* C9 witness: the event of a completed task was written to the bound socket.
C9_Witness ==
  \E c \in Callers :
    /\ initialization_tasks[c].status = "completed"
    /\ CompleteFrames(c) # {}
    /\ \E w \in Sockets : active_connections[cSid[c]] = w /\ wsState[w] = "open"

\* ------------------------------------------------------------------ claim C6

\* The deltas of the target turn of request j are in the graph the session's
\* manager updates, and the turn is no longer in flight.
TargetApplied(j) ==
  /\ kPc[j] \in {"notify", "done"}
  /\ kTarget[j] \notin inFlight[kSid[j]]
  /\ ToString(kTarget[j]) \in graph[sliding_window_managers[kSid[j]]].nodes

\* C6: in every state a session has at most one turn under extraction and at
\* most one request extracting or applying; and when a request pushes its turn
\* (and possibly starts its extraction), no extraction of the session is in
\* flight and every other request of the session that had a target has its
\* deltas applied already.
C6_OneExtractionAtATime ==
  /\ [](\A s \in SessionIds :
          /\ Cardinality(inFlight[s]) <= 1
          /\ Cardinality({k \in ConvReqs : kSid[k] = s /\ kPc[k] \in {"extract", "apply"}}) <= 1)
  /\ [][\A k \in ConvReqs :
          (kPc[k] = "new" /\ kPc'[k] \in {"extract", "done"})
            => /\ inFlight[kSid'[k]] = {}
               /\ \A j \in ConvReqs \ {k} :
                    (kSid[j] = kSid'[k] /\ kTarget[j] # 0) => TargetApplied(j)
     ]_vars

\* C6 witness: two requests have extracted consecutive targets, one after the
\* other, and both deltas are in the graph.
C6_Witness ==
  \E j, k \in ConvReqs :
    /\ kTarget[j] # 0 /\ kTarget[k] = kTarget[j] + 1
    /\ kSid[j] = kSid[k]
    /\ kPc[j] = "done" /\ kPc[k] = "done"
    /\ TargetApplied(j) /\ TargetApplied(k)

\* ------------------------------------------------------------ claims C4, C10

\* Caller c is answered by a plugin-facing endpoint in this step.
PluginCall(c) == cKind[c] = "none" /\ cKind'[c] = "plug"

\* C4: while TAVERN_MODE_ACTIVE is false, a request to submit_character,
\* available_characters, current_session, request_reinitialize or
\* reinitialize_from_plugin is answered 403 and leaves plugin_character_data,
\* pending_coordinated_reinits, the graphs, the sockets' frames and the
\* background jobs as they were.
C4_GateRejectsPluginEndpoints ==
  [][\A c \in Callers :
       (PluginCall(c) /\ ~TAVERN_MODE_ACTIVE)
         => /\ cResp'[c].status = 403
            /\ plugin_character_data' = plugin_character_data
            /\ pending_coordinated_reinits' = pending_coordinated_reinits
            /\ graph' = graph
            /\ frames' = frames
            /\ jPc' = jPc
    ]_vars

\* C10: request_reinitialize for an existing session whose id has a socket
\* bound is answered 200, adds the session id to pending_coordinated_reinits
\* and hands request_character_submission to that socket; without a bound
\* socket it is answered with an error (400), and the pending set and the
\* frames are as before.
C10_RequestReinitialize ==
  [][\A c \in Callers :
       (/\ PluginCall(c)
        /\ cResp'[c].endpoint = "request_reinitialize"
        /\ cResp'[c].status # 404)
         => \E s \in SessionIds :
              /\ sessions[s] # None
              /\ IF active_connections[s] # None
                   THEN /\ cResp'[c].status = 200
                        /\ pending_coordinated_reinits' = pending_coordinated_reinits \cup {s}
                        /\ frames'[active_connections[s]] =
                             Append(frames[active_connections[s]],
                                    <<"request_character_submission", c>>)
                   ELSE /\ cResp'[c].status = 400
                        /\ pending_coordinated_reinits' = pending_coordinated_reinits
                        /\ frames' = frames
    ]_vars

\* C10 witness: one request was accepted (the session is pending, the frame
\* was written) and another, made while no socket was bound, was refused.
C10_Witness ==
  \E c, d \in Callers :
    /\ cKind[c] = "plug" /\ cKind[d] = "plug"
    /\ cResp[c] = Http("request_reinitialize", 200)
    /\ cResp[d] = Http("request_reinitialize", 400)
    /\ cSid[c] \in pending_coordinated_reinits
    /\ \E w \in Sockets : \E i \in 1..Len(frames[w]) :
         frames[w][i] = <<"request_character_submission", c>>

\* ----------------------------------------------------------------- claim C11

\* The auto-reinit job of submission c for session s reports on the socket
\* bound to s: the frame <<type, c>> is appended there in this step (nothing
\* is written when no socket is bound).
JobReports(c, s, type) ==
  active_connections[s] # None =>
    frames'[active_connections[s]] = Append(frames[active_connections[s]], <<type, c>>)

\* C11: an accepted submit_character takes exactly the matching sessions out
\* of pending_coordinated_reinits and gives each of them a job; the job of a
\* matching session s takes the engine of s, clears its graph and bootstraps
\* it, and ends with one auto_reinitialization_complete or
\* auto_reinitialization_failed for s.
C11_EachMatchReinitialized ==
  [][/\ \A c \in Callers :
          (PluginCall(c) /\ cResp'[c] = Http("submit_character", 200))
            => \E i \in CharIds :
                 /\ plugin_character_data'[i] = cName'[c]
                 /\ pending_coordinated_reinits' =
                      pending_coordinated_reinits \ MatchingSessions(i, cName'[c])
                 /\ \A s \in SessionIds :
                      (jPc'[c][s] = "queued_auto") <=> (s \in MatchingSessions(i, cName'[c]))
     /\ \A c \in Callers, s \in SessionIds :
          /\ (jPc[c][s] = "queued_auto" /\ jPc'[c][s] = "boot_auto")
               => /\ jEngine'[c][s] = sessions[s]
                  /\ graph'[sessions[s]] = EmptyGraph
          /\ (jPc[c][s] = "queued_auto" /\ jPc'[c][s] = "failed")
               => JobReports(c, s, "auto_reinitialization_failed")
          /\ (jPc[c][s] = "ret_auto" /\ jPc'[c][s] = "done")
               => JobReports(c, s, "auto_reinitialization_complete")
    ]_vars

\* ------------------------------------------------------------ claims C12, C13

\* Reset request r returns in this step.
ResetReturns(r) == rPc[r] # "done" /\ rPc'[r] = "done"

\* C12: when full_reset returns, every socket that was bound when it arrived
\* has been closed, and sessions, session_creation_locks, the window managers,
\* the conflict resolvers, initialization_tasks, plugin_character_data,
\* pending_coordinated_reinits and active_connections are empty.
C12_FullResetEmptiesTables ==
  [][\A r \in Resets :
       (ResetReturns(r) /\ rKind'[r] = "full")
         => /\ \A w \in rBound'[r] : wsState'[w] = "closed"
            /\ \A s \in SessionIds :
                 /\ sessions'[s] = None
                 /\ session_creation_locks'[s] = None
                 /\ sliding_window_managers'[s] = None
                 /\ active_connections'[s] = None
            /\ conflict_resolvers' = {}
            /\ \A c \in Callers : initialization_tasks'[c] = NoTask
            /\ \A i \in CharIds : plugin_character_data'[i] = ""
            /\ pending_coordinated_reinits' = {}
    ]_vars

\* C13: quick_reset changes the in-memory state exactly as full_reset does: in
\* the step in which it clears the tables, sessions, the window managers, the
\* conflict resolvers, initialization_tasks and plugin_character_data are
\* empty afterwards, and when it returns every socket that was bound has been
\* closed and active_connections is empty.
C13_QuickResetAsFullReset ==
  [][\A r \in Resets :
       /\ (rPc[r] = "new" /\ rKind'[r] = "quick")
            => /\ \A s \in SessionIds :
                    sessions'[s] = None /\ sliding_window_managers'[s] = None
               /\ conflict_resolvers' = {}
               /\ \A c \in Callers : initialization_tasks'[c] = NoTask
               /\ \A i \in CharIds : plugin_character_data'[i] = ""
       /\ (ResetReturns(r) /\ rKind'[r] = "quick")
            => /\ \A w \in rBound'[r] : wsState'[w] = "closed"
               /\ \A s \in SessionIds : active_connections'[s] = None
    ]_vars

\* ----------------------------------------------------------------- claim C14

\* C14: a process_conversation request that is answered for an existing
\* session without a window manager works as update_memory: no manager is
\* created, nothing enters a window, and the extraction runs at once on the
\* submitted turn.
C14_FallbackWithoutWindow ==
  [][\A k \in ConvReqs :
       (/\ kPc[k] = "new"
        /\ kPc'[k] \notin {"new", "404"}
        /\ sliding_window_managers[kSid'[k]] = None)
         => /\ sliding_window_managers'[kSid'[k]] = None
            /\ sliding_window'[kSid'[k]] = sliding_window[kSid'[k]]
            /\ kPc'[k] = "extract"
            /\ kTarget'[k] = turn_sequence'[kSid'[k]]
    ]_vars

\* ------------------------------------------------------- claims C15 - C18

\* The turn with sequence n of window w.
TurnOf(w, n) == w[CHOOSE i \in DOMAIN w : w[i].sequence = n]

\* C15: in every reachable window, target() is the turn at 0-based index
\* len - 1 - delay when len >= delay + 1 and empty otherwise; and the turn a
\* request is extracting is the target of its session's window.
C15_TargetByPosition ==
  /\ \A s \in SessionIds :
       LET w == sliding_window[s] IN
         IF Len(w) >= PROCESSING_DELAY + 1
           THEN Target(w) = w[(Len(w) - 1 - PROCESSING_DELAY) + 1]
           ELSE Target(w) = NoTurn
  /\ \A k \in ConvReqs :
       kPc[k] \in {"extract", "apply"}
         => kTarget[k] = Target(sliding_window[kSid[k]]).sequence

\* C15 witness: a request is extracting the second of three turns.
C15_Witness ==
  \E k \in ConvReqs :
    /\ kPc[k] = "extract"
    /\ Len(sliding_window[kSid[k]]) = 3
    /\ kTarget[k] = 2

\* Only process_conversation requests have been answered so far.
OnlyConversations == \A j \in ConvReqs : kResp[j].kind # "sync"

C18_AuthoritativeWins ==
  [][\A k \in ConvReqs :
       (/\ kPc[k] = "new"
        /\ kPc'[k] = "done"
        /\ kHist'[k][1] = "differs"
        /\ InWindow(sliding_window[kSid'[k]], kHist'[k][2]))
         => LET s == kSid'[k]
                n == kHist'[k][2]
            IN /\ kResp'[k].conflicts_detected = 1
               /\ kResp'[k].conflicts_resolved = 1
               /\ InWindow(sliding_window'[s], n)
               /\ TurnOf(sliding_window'[s], n).text = TurnOf(sliding_window[s], n).text + 1
               /\ graph' = graph
               /\ disk' = disk
    ]_vars

\* C18 witness: the conflict was on a turn whose deltas had been applied; the
\* turn carries the authoritative text and its deltas are still in the graph.
C18_Witness ==
  \E k \in ConvReqs :
    /\ kResp[k] = SyncResp(1, 1, TRUE)
    /\ InWindow(sliding_window[kSid[k]], kHist[k][2])
    /\ TurnOf(sliding_window[kSid[k]], kHist[k][2]).processed
    /\ TurnOf(sliding_window[kSid[k]], kHist[k][2]).text = 1
    /\ ToString(kHist[k][2]) \in graph[sliding_window_managers[kSid[k]]].nodes

\* ------------------------------------------------------------ claims C19, C20
\* C19: an entry of nodes_to_delete whose deletion_type is not "lost" (death,
\* default, anything else) leaves a node of the graph present and marked
\* is_deleted; an entry with deletion_type "lost" removes the node and every
\* edge incident to it; and nodes_deleted goes up by one for exactly the
\* entries that took effect, that is, whose node was in the graph.
C19_NodeDeletionsCounted ==
  [][(dSteps' = dSteps + 1 /\ dEntry'[1] = "node") =>
       LET id == dEntry'[2]
           type == dEntry'[3]
       IN /\ (type # "lost" /\ kgNodes[id] # "absent") => kgNodes'[id] = "deleted"
          /\ type = "lost" =>
               /\ kgNodes'[id] = "absent"
               /\ \A e \in kgEdges' : e[1] # id /\ e[2] # id
          /\ nodes_deleted' = nodes_deleted + (IF kgNodes[id] # "absent" THEN 1 ELSE 0)]_vars

\* C20: an entry of edges_to_delete with "*" as source, as target or as
\* relationship (as target alone included) removes the edges that match its
\* other fields and no other edge, and edges_deleted goes up by the number of
\* edges removed.
C20_WildcardRemovesMatching ==
  [][(dSteps' = dSteps + 1 /\ dEntry'[1] = "edge" /\ "*" \in {dEntry'[2], dEntry'[3], dEntry'[4]}) =>
       /\ kgEdges' = kgEdges \ Matching(kgEdges, dEntry'[2], dEntry'[3], dEntry'[4])
       /\ edges_deleted' = edges_deleted + Cardinality(kgEdges \ kgEdges')]_vars

\* ----------------------------------------------------------------- claim C21
\* C21: after any sequence of bootstraps, reinitialisations and deltas (a
\* delta may delete a node and add an edge to it) every edge of the graph
\* has both its endpoints in the graph, none of them hard-deleted.
C21_EdgesHaveEndpoints ==
  \A e \in kgEdges : kgNodes[e[1]] # "absent" /\ kgNodes[e[2]] # "absent"

\* A delta hard-deleted a node that had edges and then asked for an edge to it.
C21_Witness ==
  /\ dPc = "adds"
  /\ dEntry[1] = "add"
  /\ nodes_deleted > 0
  /\ kgNodes[dEntry[3]] = "absent"
  /\ kgEdges # {}

\* ----------------------------------------------------- claims C22, C23, C25
\* C22: after any sequence of initialisations, reinitialisations, auto-reinit
\* bootstraps and turns every entity of the graph has one of the eight entity
\* types and the id type + "_" + normalize(name), normalize lowercasing the
\* name and replacing its spaces by underscores.
C22_CanonicalIds ==
  \A e \in kgEntities :
    /\ e.type \in EntityTypes
    /\ e.id = <<e.type, "_">> \o replace(lower(e.name))

\* C23: a bootstrap of an empty graph from a card named N leaves a graph that
\* is not empty and holds the node character_<normalize(N)>, when the LLM is
\* unavailable, when the call fails, when the reply is not JSON and when the
\* JSON reply lacks main_character or entities.
C23_BootstrapAlwaysHasMainCharacter ==
  (/\ bMethod \in {"llm_analysis", "simple_fallback"}
   /\ \/ bReply.outcome \in {"none", "timeout", "transport"}
      \/ ~bReply.sent.valid
      \/ bReply.sent.main = NoName
      \/ bReply.sent.entities = <<>>)
  => /\ kgEntities # {}
     /\ \E e \in kgEntities : e.id = <<"character", "_">> \o replace(lower(bCard))

\* C25: what the gateway hands its caller for a failed call is an error
\* outcome with the class of the failure, not a text: LLMTimeout for a
\* timeout, LLMTransport for a transport error, LLMFormat for a body that is
\* not JSON.
C25_FailuresAreClassified ==
  /\ bReply.outcome = "timeout" =>
       bReply.result.kind = "error" /\ bReply.result.class = "LLMTimeout"
  /\ bReply.outcome = "transport" =>
       bReply.result.kind = "error" /\ bReply.result.class = "LLMTransport"
  /\ (bReply.outcome = "ok" /\ ~bReply.sent.valid) =>
       bReply.result.kind = "error" /\ bReply.result.class = "LLMFormat"

\* ----------------------------------------------------------------- claim C24
\* C24: a call of extract_updates_from_response returns counters whatever the
\* agent does; when the agent failed (error result, exception, failure while
\* applying) they are the local extractor's, possibly all zeros; and the
\* deltas of the turn were put into the graph by at most one extractor.
C24_OneExtractorPerTurn ==
  xTurns > 0 =>
    /\ xResult \in {"agent", "local", "zeros"}
    /\ AgentFailed(xCase) => xResult \in {"local", "zeros"}
    /\ Cardinality(xApplied) <= 1

\* ----------------------------------------------------------------- claim C26
\* C26: the request frame a bound socket received is answered with one
\* response frame of the same request_id and action on that socket, for
\* every action (system.full_reset and unknown actions included), a handler
\* error as ok=false, and the socket is open and bound afterwards.
C26_OneResponsePerRequest ==
  [][\A w \in Sockets :
       (wsPc[w] = "handling" /\ wsPc'[w] # "handling") =>
         /\ Len(frames'[w]) = Len(frames[w]) + 1
         /\ frames'[w][Len(frames'[w])][1] = "response"
         /\ frames'[w][Len(frames'[w])][2][1] = wsMsg[w].action
         /\ frames'[w][Len(frames'[w])][2][2] = wsMsg[w].request_id
         /\ wsState'[w] = "open"
         /\ active_connections'[wsSid[w]] = w]_vars

\* ----------------------------------------------------------------- claim C27
\* C27: a reset of session s with keep_character_data = true that is
\* answered 200 leaves the conversation log of s empty and changes nothing
\* else: s stays registered with the same engine, and the graphs (nodes,
\* edges, files), the windows and the logs of the other sessions are as
\* before.
C27_ResetKeepsGraph ==
  [][\A s \in SessionIds :
       (/\ lastReset' # lastReset
        /\ lastReset'.session_id = s
        /\ lastReset'.status = "200"
        /\ lastReset'.keep_character_data) =>
         /\ conversation_history'[s] = 0
         /\ \A o \in SessionIds \ {s} : conversation_history'[o] = conversation_history[o]
         /\ sessions[s] # None
         /\ UNCHANGED <<sessions, graph, disk, registered, kgNodes, kgEdges, kgEntities>>
         /\ UNCHANGED <<sliding_window, turn_sequence, sliding_window_managers>>]_vars

\* A log of at least one turn was cleared, and the session is registered with
\* its bootstrapped graph.
C27_Witness ==
  /\ lastReset.session_id = "s1"
  /\ lastReset.status = "200"
  /\ lastReset.keep_character_data
  /\ lastReset.cleared > 0
  /\ conversation_history["s1"] = 0
  /\ sessions["s1"] # None
  /\ graph[sessions["s1"]] # EmptyGraph
  /\ \E n \in NodeIds : kgNodes[n] = "live"

\* ----------------------------------------------------------------- claim C28
\* C28: the enhanced_context of an answered enhance_prompt is no longer than
\* max_context_length, and when the retrieved context was longer than
\* max_context_length it ends with the truncation marker.
C28_ContextWithinLimit ==
  lastEnhance.status = "200" =>
    /\ Len(lastEnhance.enhanced_context) <= lastEnhance.max_context_length
    /\ Len(lastEnhance.context) > lastEnhance.max_context_length =>
         /\ Len(lastEnhance.enhanced_context) >= Len(TruncationMarker)
         /\ SubSeq(lastEnhance.enhanced_context,
                   Len(lastEnhance.enhanced_context) - Len(TruncationMarker) + 1,
                   Len(lastEnhance.enhanced_context)) = TruncationMarker

\* ----------------------------------------------------------------- claim C29
\* C29: with the gate on and at least one tavern session registered, the
\* answer of GET /tavern/current_session names the tavern session that was
\* created last.
C29_CurrentIsMostRecent ==
  [][(/\ lastCurrent' # lastCurrent
      /\ TAVERN_MODE_ACTIVE
      /\ tavernOrder # <<>>) =>
        /\ lastCurrent'.status = "200"
        /\ lastCurrent'.has_session
        /\ lastCurrent'.session_id = tavernOrder[Len(tavernOrder)]]_vars

\* ----------------------------------------------------------------- claim C30
\* C30: a POST /system/tavern_mode whose "active" is missing or is not a
\* boolean is answered 400 and leaves TAVERN_MODE_ACTIVE as it was.
C30_MalformedModeRejected ==
  [][(lastMode' # lastMode /\ lastMode'.payload.type # "bool") =>
        /\ lastMode'.status = "400"
        /\ UNCHANGED TAVERN_MODE_ACTIVE]_vars

\* ----------------------------------------------------------------- claim C31
\* C31: while a reinitialisation job of a session is between its clear and
\* the end of its bootstrap, no process_conversation request applies deltas
\* to the graph of the engine the job works on.
C31_ReinitExcludesTurns ==
  [][\A c \in Callers, s \in SessionIds, k \in ConvReqs :
       ~(/\ jPc[c][s] \in {"boot_auto", "boot_plugin"}
         /\ jPc'[c][s] = jPc[c][s]
         /\ kPc[k] = "apply" /\ kPc'[k] = "notify"
         /\ sliding_window_managers[kSid[k]] = jEngine[c][s]
         /\ graph'[jEngine[c][s]] # graph[jEngine[c][s]])]_vars

\* ----------------------------------------------------------------- claim C32
\* C32: every session of pending_coordinated_reinits has a bound socket: a
\* session whose socket has disconnected (the plugin closed it, or the
\* binding was dropped after a failed send) is no longer pending.
C32_PendingHasSocket ==
  \A s \in pending_coordinated_reinits : active_connections[s] # None

\* ----------------------------------------------------------------- claim C33
\* C33: while tavern mode is off, a request that arrives on a bound socket
\* is not dispatched to an answer with ok = true, and no event is pushed to a
\* socket (the only frames sent are responses and the greeting of a connect).
C33_GateCoversOpenSockets ==
  [][\A w \in Sockets :
       ~TAVERN_MODE_ACTIVE =>
         /\ ~(/\ wsPc[w] = "receive" /\ wsPc'[w] = "handling"
              /\ wsMsg'[w].action = "enhance_prompt"
              /\ sessions[wsSid[w]] # None)
         /\ Len(frames'[w]) > Len(frames[w]) =>
              frames'[w][Len(frames'[w])][1] \in {"response", "connection_established"}]_vars

C35_ManagersFollowSessions ==
  /\ \A s \in SessionIds :
       sliding_window_managers[s] # None =>
         sessions[s] # None /\ sliding_window_managers[s] = sessions[s]
  /\ \A s \in conflict_resolvers : sessions[s] # None

\* ----------------------------------------------------------------- claim C36
\* C36: when no connect is in progress, a socket that is open and in its
\* receive loop is the binding of its session: a socket that was superseded
\* has been closed (code 1012) and serves no more requests.
C36_SupersededSocketsClosed ==
  (\A v \in Sockets : wsPc[v] \notin {"lookup", "store", "established"}) =>
    \A w \in Sockets :
      (wsPc[w] = "receive" /\ wsState[w] = "open") =>
        \/ active_connections[wsSid[w]] = w
        \/ CODE_REPLACED \in closeCalls[w]

\* ----------------------------------------------------------------- claim C37
\* C37: once a system reset has returned (and no initialize request arrives
\* after it), `sessions` is and stays empty, no task record is written, and
\* no background task ends in an unhandled error.
C37_ResetStaysClean ==
  [][(\E r \in Resets : rPc[r] = "done" /\ rPc'[r] = "done") =>
        /\ \A s \in SessionIds : sessions'[s] = None
        /\ initialization_tasks' = initialization_tasks
        /\ \A c \in Callers : cPc'[c] # "bg_crashed"]_vars

\* ----------------------------------------------------------------- claim C38
\* C38: the auto-reinitialization of a submit_character call bootstraps from
\* the card of that very submission.
C38_ReinitUsesOwnCard ==
  \A c \in Callers, s \in SessionIds :
    jPc[c][s] \in {"boot_auto", "ret_auto"} => jCard[c][s] = Card(c)

\* ----------------------------------------------------------------- claim C39
\* C39: after a bootstrap of an empty graph the counts it returned are the
\* numbers of nodes and of edges in the graph.
C39_CountsMatchGraph ==
  bMethod \in {"llm_analysis", "simple_fallback"} =>
    /\ bStats.nodes_added = Cardinality(kgEntities)
    /\ bStats.edges_added = Cardinality(kgRelations)

\* ----------------------------------------------------------------- claim C40
\* C40: a call of enter_tavern_mode that fails leaves the knowledge graph of
\* the engine and is_tavern_mode as they were before the call.
C40_FailedEnterChangesNothing ==
  [][(saved_session_data' # saved_session_data /\ ~lastEnter'.success) =>
        /\ kgEntities' = kgEntities
        /\ kgRelations' = kgRelations
        /\ is_tavern_mode' = is_tavern_mode]_vars
====
